---- MODULE Spec2Model ----
(***************************************************************************)
(* A model of the encrypted filesystem engine of rencfs                    *)
(* (src/src/encrypted_fs.rs).                                              *)
(*                                                                         *)
(* The host data directory is modelled by what the engine stores in it:    *)
(*   inodes        inodes/<ino>           the FileAttr record of each inode *)
(*   dirs          contents/<ino>/        host directory: name -> entry     *)
(*   files         contents/<ino>         link to a host file object        *)
(*   tmps          contents/<ino>.<h>.tmp link to a host file object        *)
(*   disk          the bytes of every host file object that is linked or    *)
(*                 held open by a handle (cell 1 is the IV, the following   *)
(*                 cells are ChaCha20 ciphertext bytes)                     *)
(* and the engine's memory by the fields of EncryptedFs:                   *)
(*   read_handles, write_handles, current_file_handle.                     *)
(*                                                                         *)
(* Every public method is a function from (state, inputs) to               *)
(* (result, state); an action applies one method to the current state.     *)
(* The inode number create_nod draws is an input of create_nod.            *)
(* Of the timestamps only atime is modelled, by the event that set it: 0   *)
(* for the creation of the attr, h for a read on handle h; mtime and ctime *)
(* are set by the statements that set size.  Inode records and directory   *)
(* entries are written and read whole, each with its IV in the object, so  *)
(* they are modelled by the record they hold; content files, which are     *)
(* written in place and re-read through other descriptors, are modelled    *)
(* byte by byte with their IV and keystream.                               *)
(***************************************************************************)
EXTENDS Integers, Sequences, FiniteSets, TLC

\* ---------------------------------------------------------------- bounds

\* Inode numbers are drawn from 2..MaxIno (the code draws from 2..2^64-1).
MaxIno == 3
\* Calls that allocate a handle are made only while current_file_handle < MaxHandle.
MaxHandle == 2
\* write_all is called with offset + len(buf) <= MaxLen, read with offset <= MaxLen.
MaxLen == 3
\* open is called while fewer than MaxOpen handles are open.
MaxOpen == 1
\* Sequences of at most MaxWrites write_all calls on one handle are compared
\* with their expected result.
MaxWrites == 3
\* FileCryptoWriter is called with positions of at most MaxPos.
MaxPos == 3
\* A RingCryptoWriter is handed at most MaxRing bytes in all.
MaxRing == 6

\* ------------------------------------------------------------- constants

ROOT_INODE == 1
\* let mut buffer: [u8; 4096], scaled down to two bytes.
BUFFER_LEN == 2
\* pub(crate) const BUF_SIZE: usize = 1024 * 1024, scaled down to two bytes.
BUF_SIZE == 2

\* ------------------------------------------------------------- utilities

Put(f, k, v) == [x \in (DOMAIN f) \cup {k} |-> IF x = k THEN v ELSE f[x]]

Drop(f, k) == [x \in (DOMAIN f) \ {k} |-> f[x]]

Range(f) == {f[x] : x \in DOMAIN f}

Min(a, b) == IF a < b THEN a ELSE b

\* ----------------------------------------------------------------- names

\* A name is a sequence of characters.
Dot == <<".">>

DotDot == <<".", ".">>

MDot == <<"$", ".">>

MDotDot == <<"$", ".", ".">>

\* name.replace("/", "").replace("\\", "")
StripSeparators(name) == SelectSeq(name, LAMBDA c : c # "/" /\ c # "\\")

\* if name == "." { "$." } else if name == ".." { "$.." }
Mangle(name) == IF name = Dot THEN MDot ELSE IF name = DotDot THEN MDotDot ELSE name

\* if name == "$." { "." } else if name == "$.." { ".." }
Unmangle(name) == IF name = MDot THEN Dot ELSE IF name = MDotDot THEN DotDot ELSE name

\* ----------------------------------------------------------------- types

Directory == "Directory"

RegularFile == "RegularFile"

\* Any fuser::FileType other than Directory and RegularFile.
Symlink == "Symlink"

\* Option::None of a FileAttr.
NoAttr == [ino |-> 0, kind |-> "None", size |-> 0, perm |-> 0, nlink |-> 0,
           atime |-> 0]

\* The FileAttr a caller hands to create_nod (attr.ino is overwritten).
NewAttr(kind) == [ino |-> 0, kind |-> kind, size |-> 0,
                  perm |-> IF kind = Directory THEN 493 ELSE 420,
                  nlink |-> IF kind = Directory THEN 2 ELSE 1,
                  atime |-> 0]

\* PathBuf of a write handle: contents/<ino> or contents/<ino>.<handle>.tmp
CanonPath(ino) == [tmp |-> FALSE, ino |-> ino, handle |-> 0]

TmpPath(ino, handle) == [tmp |-> TRUE, ino |-> ino, handle |-> handle]

\* ----------------------------------------------------- the ChaCha20 stream

\* Plaintext and ciphertext bytes.
Byte == {0, 1}

\* Keystream byte i (from 0) of the stream keyed by iv: bit i of a word
\* derived from the IV, so that distinct IVs give distinct streams.
KeyStream(iv, i) == ((5 * iv + 3) \div (2 ^ (i % 4))) % 2

\* A stream cipher: output byte i is input byte i xor keystream byte i.
Crypt(iv, i, b) == (b + KeyStream(iv, i)) % 2

VARIABLES inodes, dirs, files, tmps, disk, read_handles, write_handles,
          current_file_handle, status, file_writer, ring_writer

vars == <<inodes, dirs, files, tmps, disk, read_handles, write_handles,
          current_file_handle, status, file_writer, ring_writer>>

\* The engine and its data directory as one value.
St == [inodes |-> inodes, dirs |-> dirs, files |-> files, tmps |-> tmps,
       disk |-> disk, read_handles |-> read_handles,
       write_handles |-> write_handles,
       current_file_handle |-> current_file_handle]

\* A method's return: the Result, the state it leaves, the Ok value.
Ret(res, s, out) == [res |-> res, s |-> s, out |-> out]

\* ------------------------------------------------------- host filesystem

\* Path::exists / is_dir of contents/<ino>.
ContentIsDir(s, ino) == ino \in DOMAIN s.dirs

ContentIsFile(s, ino) == ino \in DOMAIN s.files

\* Whether contents/<parent>/<hname> resolves on the host: "", "." and ".."
\* resolve to directories, any other name to an entry file.
HostExists(s, parent, hname) ==
    /\ ContentIsDir(s, parent)
    /\ \/ hname \in {<<>>, Dot, DotDot}
       \/ hname \in DOMAIN s.dirs[parent]

\* Whether contents/<parent>/<hname> names (or can name) a regular file.
HostIsEntryPath(s, parent, hname) ==
    /\ ContentIsDir(s, parent)
    /\ hname \notin {<<>>, Dot, DotDot}

\* The smallest identifier no live host file object has.
NewFid(s) == CHOOSE f \in 1..(Cardinality(DOMAIN s.disk) + 1) :
                /\ f \notin DOMAIN s.disk
                /\ \A g \in 1..(f - 1) : g \in DOMAIN s.disk

\* OpenOptions::new().write(true).create(true).truncate(true).open(contents/<ino>)
\* on a path that is not a directory: the file object is emptied, or created.
CreateTruncate(s, ino) ==
    IF ContentIsFile(s, ino)
    THEN [s EXCEPT !.disk = Put(s.disk, s.files[ino], <<>>)]
    ELSE LET f == NewFid(s) IN
         [s EXCEPT !.files = Put(s.files, ino, f), !.disk = Put(s.disk, f, <<>>)]

\* Host file objects that a link or an open descriptor still refers to.
LiveFids(s) ==
    Range(s.files) \cup Range(s.tmps)
      \cup {s.read_handles[h].decryptor.fid : h \in DOMAIN s.read_handles}
      \cup {s.write_handles[h].encryptor.fid : h \in DOMAIN s.write_handles}

\* The host frees a file object once nothing refers to it.
Collect(s) == [s EXCEPT !.disk = [f \in (DOMAIN s.disk) \cap LiveFids(s) |-> s.disk[f]]]

\* write(2) of one byte at raw position pos (from 1); a gap is zero-filled.
RawPut(raw, pos, b) ==
    [i \in 1..(IF pos > Len(raw) THEN pos ELSE Len(raw)) |->
        IF i = pos THEN b ELSE IF i <= Len(raw) THEN raw[i] ELSE 0]

\* --------------------------------------------------- encryptor, decryptor

\* The IVs in use: the IV cell of every live file and the IV of every open
\* encryptor and decryptor.
UsedIVs(s) ==
    {s.disk[f][1] : f \in {g \in DOMAIN s.disk : Len(s.disk[g]) > 0}}
      \cup {s.read_handles[h].decryptor.iv : h \in DOMAIN s.read_handles}
      \cup {s.write_handles[h].encryptor.iv : h \in DOMAIN s.write_handles}

\* rng.gen(): a random 16-byte IV.  It differs from every IV in use (and from
\* the all-zero IV of a zero-filled hole); which value it is does not matter,
\* so the smallest such value is taken.
FreshIV(s) == CHOOSE v \in 1..(Cardinality(UsedIVs(s)) + 1) :
                 /\ v \notin UsedIVs(s)
                 /\ \A u \in 1..(v - 1) : u \in UsedIVs(s)

\* create_decryptor(file): an empty file gets a fresh IV written to it,
\* otherwise the IV is read from the file.
create_decryptor(s, fid) ==
    IF Len(s.disk[fid]) = 0
    THEN LET iv == FreshIV(s) IN
         [s |-> [s EXCEPT !.disk = Put(s.disk, fid, <<iv>>)],
          dec |-> [fid |-> fid, iv |-> iv, n |-> 0, fin |-> FALSE]]
    ELSE [s |-> s,
          dec |-> [fid |-> fid, iv |-> s.disk[fid][1], n |-> 0, fin |-> FALSE]]

\* create_encryptor(file): as create_decryptor.
create_encryptor(s, fid) ==
    IF Len(s.disk[fid]) = 0
    THEN LET iv == FreshIV(s) IN
         [s |-> [s EXCEPT !.disk = Put(s.disk, fid, <<iv>>)],
          enc |-> [fid |-> fid, iv |-> iv, n |-> 0]]
    ELSE [s |-> s,
          enc |-> [fid |-> fid, iv |-> s.disk[fid][1], n |-> 0]]

\* Encryptor::write_all(buf): each byte is encrypted with the next keystream
\* byte and written at the descriptor's offset, which follows the IV.
RECURSIVE EncWrite(_, _, _)
EncWrite(dk, enc, buf) ==
    IF buf = <<>> THEN [disk |-> dk, enc |-> enc]
    ELSE EncWrite(
            Put(dk, enc.fid,
                RawPut(dk[enc.fid], enc.n + 2, Crypt(enc.iv, enc.n, Head(buf)))),
            [enc EXCEPT !.n = enc.n + 1],
            Tail(buf))

\* Decryptor::read_exact(len): Ok with len decrypted bytes, or, when the file
\* ends first, Err(UnexpectedEof) with the decryptor finished at the end.
RECURSIVE DecRead(_, _, _, _)
DecRead(dk, dec, len, acc) ==
    IF len = 0 THEN [ok |-> TRUE, dec |-> dec, data |-> acc]
    ELSE IF dec.fin \/ dec.n + 2 > Len(dk[dec.fid])
    THEN [ok |-> FALSE, dec |-> [dec EXCEPT !.fin = TRUE], data |-> acc]
    ELSE DecRead(dk,
                 [dec EXCEPT !.n = dec.n + 1],
                 len - 1,
                 Append(acc, Crypt(dec.iv, dec.n, dk[dec.fid][dec.n + 2])))

\* ------------------------------------------------------------ inode store

\* node_exists: inodes/<ino> is a file.
node_exists(s, ino) == ino \in DOMAIN s.inodes

\* get_inode(ino).ok()
HasInode(s, ino) == ino \in DOMAIN s.inodes

get_inode(s, ino) == s.inodes[ino]

is_dir(s, ino) == HasInode(s, ino) /\ get_inode(s, ino).kind = Directory

is_file(s, ino) == HasInode(s, ino) /\ get_inode(s, ino).kind = RegularFile

\* write_inode: create or truncate inodes/<attr.ino> and write attr.
write_inode(s, attr) == [s EXCEPT !.inodes = Put(s.inodes, attr.ino, attr)]

\* exists_by_name: contents/<parent>/<mangled name> exists.
exists_by_name(s, parent, name) == HostExists(s, parent, Mangle(name))

\* find_by_name: Ok(Some(attr)), Ok(None) (out = NoAttr) or an error.
find_by_name(s, parent, name) ==
    IF ~node_exists(s, parent) THEN Ret("InodeNotFound", s, NoAttr)
    ELSE IF ~exists_by_name(s, parent, name) THEN Ret("Ok", s, NoAttr)
    ELSE IF ~is_dir(s, parent) THEN Ret("InvalidInodeType", s, NoAttr)
    ELSE IF Mangle(name) \notin DOMAIN s.dirs[parent] THEN Ret("Panic", s, NoAttr)
    ELSE LET inode == s.dirs[parent][Mangle(name)].ino IN
         IF ~HasInode(s, inode) THEN Ret("InodeNotFound", s, NoAttr)
         ELSE Ret("Ok", s, get_inode(s, inode))

\* insert_directory_entry: create or truncate contents/<parent>/<name with the
\* separators removed> and write (entry.ino, entry.kind).
insert_directory_entry(s, parent, entry) ==
    LET normalized_name == StripSeparators(entry.name) IN
    IF ~HostIsEntryPath(s, parent, normalized_name) THEN Ret("Io", s, 0)
    ELSE Ret("Ok",
             [s EXCEPT !.dirs[parent] =
                 Put(s.dirs[parent], normalized_name,
                     [ino |-> entry.ino, kind |-> entry.kind])],
             0)

\* remove_directory_entry: fs::remove_file(contents/<parent>/<name>).
remove_directory_entry(s, parent, name) ==
    IF ~(ContentIsDir(s, parent) /\ name \in DOMAIN s.dirs[parent])
    THEN Ret("Io", s, 0)
    ELSE Ret("Ok", [s EXCEPT !.dirs[parent] = Drop(s.dirs[parent], name)], 0)

\* read_dir(ino).count(): the host entries of contents/<ino>.
children_count(s, ino) == Cardinality(DOMAIN s.dirs[ino])

\* DirectoryEntryIterator::next on the host entry hname of contents/<ino>:
\* the entry's inode and kind under the unmangled name.
DirectoryEntryIterator_next(s, ino, hname) ==
    [ino |-> s.dirs[ino][hname].ino, name |-> Unmangle(hname),
     kind |-> s.dirs[ino][hname].kind]

\* read_dir(ino): one DirectoryEntry per host entry of contents/<ino>, in the
\* host's order, which is not specified: out maps each host entry to the
\* DirectoryEntry the iterator yields for it.
read_dir(s, ino) ==
    IF ~ContentIsDir(s, ino) THEN Ret("InvalidInodeType", s, <<>>)
    ELSE Ret("Ok", s,
             [hname \in DOMAIN s.dirs[ino] |-> DirectoryEntryIterator_next(s, ino, hname)])

\* An inode generator whose loop accepts any number above ROOT_INODE without
\* looking for an existing record.
generate_next_inode_unchecked(s) == (ROOT_INODE + 1)..MaxIno

\* generate_next_inode: the values the loop can return.
generate_next_inode(s) == {i \in (ROOT_INODE + 1)..MaxIno : ~node_exists(s, i)}

\* ---------------------------------------------------------------- handles

\* A handle allocator that hands out the smallest identifier not in a
\* handle table, so that the identifier of a released handle is used again.
allocate_smallest_free_handle(s) ==
    [s EXCEPT !.current_file_handle =
        CHOOSE h \in 1..(s.current_file_handle + 1) :
            /\ h \notin (DOMAIN s.read_handles) \cup (DOMAIN s.write_handles)
            /\ \A g \in 1..(h - 1) :
                  g \in (DOMAIN s.read_handles) \cup (DOMAIN s.write_handles)]

\* allocate_next_file_handle
allocate_next_file_handle(s) ==
    [s EXCEPT !.current_file_handle = s.current_file_handle + 1]

\* create_read_handle
create_read_handle(s, ino, handle) ==
    IF ~ContentIsFile(s, ino) THEN Ret("Io", s, 0)
    ELSE LET d == create_decryptor(s, s.files[ino]) IN
         IF ~HasInode(d.s, ino) THEN Ret("InodeNotFound", d.s, 0)
         ELSE Ret("Ok",
                  [d.s EXCEPT !.read_handles =
                      Put(d.s.read_handles, handle,
                          [attr |-> get_inode(d.s, ino), position |-> 0,
                           decryptor |-> d.dec])],
                  handle)

\* create_write_handle
create_write_handle(s, ino, handle) ==
    IF ~ContentIsFile(s, ino) THEN Ret("Io", s, 0)
    ELSE LET e == create_encryptor(s, s.files[ino]) IN
         IF ~HasInode(e.s, ino) THEN Ret("InodeNotFound", e.s, 0)
         ELSE Ret("Ok",
                  [e.s EXCEPT !.write_handles =
                      Put(e.s.write_handles, handle,
                          [attr |-> get_inode(e.s, ino), path |-> CanonPath(ino),
                           position |-> 0, encryptor |-> e.enc])],
                  handle)

\* open(ino, read, write)
open(s, ino, read, write) ==
    IF is_dir(s, ino) THEN Ret("InvalidInodeType", s, 0)
    ELSE LET s1 == allocate_next_file_handle(s)
             handle == s1.current_file_handle
             r == IF read THEN create_read_handle(s1, ino, handle)
                  ELSE Ret("Ok", s1, handle)
         IN IF r.res # "Ok" THEN r
            ELSE IF write THEN create_write_handle(r.s, ino, handle)
            ELSE Ret("Ok", r.s, handle)

\* ------------------------------------------------------------- create_nod

\* create_nod(parent, name, attr, read, write), with the inode number it
\* draws; out is (handle, attr).
create_nod(s, parent, name, attr0, read, write, ino) ==
    LET none == [handle |-> 0, attr |-> NoAttr] IN
    IF ~node_exists(s, parent) THEN Ret("InodeNotFound", s, none)
    ELSE LET f == find_by_name(s, parent, name) IN
    IF f.res # "Ok" THEN Ret(f.res, s, none)
    ELSE IF f.out # NoAttr THEN Ret("AlreadyExists", s, none)
    ELSE
    LET attr == [attr0 EXCEPT !.ino = ino]
        s1 == write_inode(s, attr)
        \* create in contents directory
        c == CASE attr.kind = RegularFile ->
                    IF ContentIsDir(s1, attr.ino) THEN Ret("Io", s1, 0)
                    ELSE Ret("Ok", CreateTruncate(s1, attr.ino), 0)
               [] attr.kind = Directory ->
                    IF ContentIsDir(s1, attr.ino) \/ ContentIsFile(s1, attr.ino)
                    THEN Ret("Io", s1, 0)
                    ELSE LET s2 == [s1 EXCEPT !.dirs = Put(s1.dirs, attr.ino, <<>>)]
                             e1 == insert_directory_entry(s2, attr.ino,
                                     [ino |-> attr.ino, name |-> MDot, kind |-> Directory])
                         IN IF e1.res # "Ok" THEN e1
                            ELSE insert_directory_entry(e1.s, attr.ino,
                                     [ino |-> parent, name |-> MDotDot, kind |-> Directory])
               [] OTHER -> Ret("InvalidInodeType", s1, 0)
    IN
    IF c.res # "Ok" THEN Ret(c.res, c.s, none)
    ELSE
    \* add entry in parent directory
    LET e == insert_directory_entry(c.s, parent,
                [ino |-> attr.ino, name |-> name, kind |-> attr.kind]) IN
    IF e.res # "Ok" THEN Ret(e.res, e.s, none)
    ELSE
    \* the parent's attr is rewritten with new timestamps
    LET s3 == write_inode(e.s, get_inode(e.s, parent))
        o == IF attr.kind = RegularFile THEN open(s3, attr.ino, read, write)
             ELSE LET s4 == allocate_next_file_handle(s3)
                  IN Ret("Ok", s4, s4.current_file_handle)
    IN IF o.res # "Ok" THEN Ret(o.res, o.s, none)
       ELSE Ret("Ok", o.s, [handle |-> o.out, attr |-> attr])

\* ------------------------------------------------------ remove_dir, remove_file

\* remove_dir(parent, name)
remove_dir(s, parent, name) ==
    IF ~is_dir(s, parent) THEN Ret("InvalidInodeType", s, 0)
    ELSE IF ~exists_by_name(s, parent, name) THEN Ret("NotFound", s, 0)
    ELSE LET f == find_by_name(s, parent, name) IN
    IF f.res # "Ok" THEN Ret(f.res, s, 0)
    ELSE IF f.out = NoAttr THEN Ret("NotFound", s, 0)
    ELSE LET attr == f.out IN
    IF attr.kind # Directory THEN Ret("InvalidInodeType", s, 0)
    \* check if it's empty
    ELSE IF ~ContentIsDir(s, attr.ino) THEN Ret("InvalidInodeType", s, 0)
    ELSE IF Min(3, children_count(s, attr.ino)) > 2 THEN Ret("NotEmpty", s, 0)
    ELSE
    LET \* remove inode file
        s1 == [s EXCEPT !.inodes = Drop(s.inodes, attr.ino)]
        \* remove contents directory
        s2 == [s1 EXCEPT !.dirs = Drop(s1.dirs, attr.ino)]
        \* remove from parent directory
        e == remove_directory_entry(s2, parent, name)
    IN IF e.res # "Ok" THEN e
       ELSE IF ~HasInode(e.s, parent) THEN Ret("InodeNotFound", e.s, 0)
       ELSE Ret("Ok", write_inode(e.s, get_inode(e.s, parent)), 0)

\* remove_file(parent, name)
remove_file(s, parent, name) ==
    IF ~is_dir(s, parent) THEN Ret("InvalidInodeType", s, 0)
    ELSE IF ~exists_by_name(s, parent, name) THEN Ret("NotFound", s, 0)
    ELSE LET f == find_by_name(s, parent, name) IN
    IF f.res # "Ok" THEN Ret(f.res, s, 0)
    ELSE IF f.out = NoAttr THEN Ret("NotFound", s, 0)
    ELSE LET attr == f.out IN
    IF attr.kind # RegularFile THEN Ret("InvalidInodeType", s, 0)
    ELSE
    LET \* remove inode file
        s1 == [s EXCEPT !.inodes = Drop(s.inodes, attr.ino)] IN
    \* remove contents file
    IF ~ContentIsFile(s1, attr.ino) THEN Ret("Io", s1, 0)
    ELSE
    LET s2 == [s1 EXCEPT !.files = Drop(s1.files, attr.ino)]
        \* remove from parent directory
        e == remove_directory_entry(s2, parent, name)
    IN IF e.res # "Ok" THEN e
       ELSE IF ~HasInode(e.s, parent) THEN Ret("InodeNotFound", e.s, 0)
       ELSE Ret("Ok", write_inode(e.s, get_inode(e.s, parent)), 0)

\* ------------------------------------------------------------------ rename

\* rename(parent, name, new_parent, new_name)
rename(s, parent, name, new_parent, new_name) ==
    IF ~node_exists(s, parent) THEN Ret("InodeNotFound", s, 0)
    ELSE IF ~is_dir(s, parent) THEN Ret("InvalidInodeType", s, 0)
    ELSE IF ~node_exists(s, new_parent) THEN Ret("InodeNotFound", s, 0)
    ELSE IF ~is_dir(s, new_parent) THEN Ret("InvalidInodeType", s, 0)
    ELSE IF ~exists_by_name(s, parent, name) THEN Ret("NotFound", s, 0)
    \* no-op
    ELSE IF parent = new_parent /\ name = new_name THEN Ret("Ok", s, 0)
    ELSE
    \* Only overwrite an existing directory if it's empty
    LET t == find_by_name(s, new_parent, new_name)
        new_attr == t.out
        overwrites_dir == t.res = "Ok" /\ new_attr # NoAttr /\ new_attr.kind = Directory
    IN
    IF overwrites_dir /\ ~ContentIsDir(s, new_attr.ino) THEN Ret("InvalidInodeType", s, 0)
    ELSE IF overwrites_dir /\ children_count(s, new_attr.ino) > 2 THEN Ret("NotEmpty", s, 0)
    ELSE LET f == find_by_name(s, parent, name) IN
    IF f.res # "Ok" THEN Ret(f.res, s, 0)
    ELSE IF f.out = NoAttr THEN Ret("Panic", s, 0)
    ELSE
    LET attr == f.out
        \* remove from parent contents
        r == remove_directory_entry(s, parent, name)
    IN
    IF r.res # "Ok" THEN r
    ELSE
    \* add to new parent contents
    LET i == insert_directory_entry(r.s, new_parent,
                [ino |-> attr.ino, name |-> new_name, kind |-> attr.kind]) IN
    IF i.res # "Ok" THEN i
    ELSE IF ~HasInode(i.s, parent) \/ ~HasInode(i.s, new_parent)
    THEN Ret("InodeNotFound", i.s, 0)
    ELSE IF attr.kind = Directory
    \* add parent link to new directory
    THEN insert_directory_entry(i.s, attr.ino,
                [ino |-> new_parent, name |-> MDotDot, kind |-> Directory])
    ELSE Ret("Ok", i.s, 0)

\* ---------------------------------------------------------------- truncate

\* truncate(ino, size)
truncate(s, ino, size) ==
    IF ~HasInode(s, ino) THEN Ret("InodeNotFound", s, 0)
    ELSE LET attr == get_inode(s, ino) IN
    IF attr.kind = Directory THEN Ret("InvalidInodeType", s, 0)
    ELSE IF size = 0 /\ ContentIsDir(s, ino) THEN Ret("Io", s, 0)
    ELSE LET s1 == IF size = 0 THEN CreateTruncate(s, ino) ELSE s
         IN Ret("Ok", write_inode(s1, [attr EXCEPT !.size = size]), 0)

\* ---------------------------------------------------------- release_handle

\* fs::rename(contents/<ino>.<handle>.tmp, contents/<ino>)
RenameTmpOverCanonical(s, path) ==
    LET key == <<path.ino, path.handle>> IN
    IF key \notin DOMAIN s.tmps \/ ContentIsDir(s, path.ino) THEN Ret("Panic", s, 0)
    ELSE Ret("Ok",
             [s EXCEPT !.files = Put(s.files, path.ino, s.tmps[key]),
                       !.tmps = Drop(s.tmps, key)],
             0)

\* release_handle(handle)
release_handle(s, handle) ==
    LET s1 == IF handle \in DOMAIN s.read_handles
              THEN write_inode([s EXCEPT !.read_handles = Drop(s.read_handles, handle)],
                               s.read_handles[handle].attr)
              ELSE s
    IN
    IF handle \in DOMAIN s1.write_handles
    THEN LET w == s1.write_handles[handle]
             s2 == write_inode([s1 EXCEPT !.write_handles = Drop(s1.write_handles, handle)],
                               w.attr)
         IN IF w.path.tmp THEN RenameTmpOverCanonical(s2, w.path)
            ELSE Ret("Ok", s2, 0)
    ELSE Ret("Ok", s1, 0)

\* flush(handle): Encryptor::flush flushes the File, which buffers nothing.
flush(s, handle) == Ret("Ok", s, 0)

\* -------------------------------------------------------------------- read

\* The cursor-positioning loop of read: decrypt and drop bytes until the
\* handle's position is offset.  An iteration with read_len = 0 changes
\* nothing and does not break, so the loop then repeats for ever ("Hang").
RECURSIVE ReadSkipLoop(_, _, _)
ReadSkipLoop(s, handle, offset) ==
    LET h == s.read_handles[handle]
        read_len == IF h.position + BUFFER_LEN > offset
                    THEN offset - h.position ELSE BUFFER_LEN
    IN
    IF read_len > 0
    THEN LET d == DecRead(s.disk, h.decryptor, read_len, <<>>) IN
         IF ~d.ok
         THEN Ret("Io", [s EXCEPT !.read_handles[handle].decryptor = d.dec], <<>>)
         ELSE LET s1 == [s EXCEPT !.read_handles[handle].decryptor = d.dec,
                                  !.read_handles[handle].position = h.position + read_len]
              IN IF h.position + read_len = offset THEN Ret("Ok", s1, <<>>)
                 ELSE ReadSkipLoop(s1, handle, offset)
    ELSE Ret("Hang", s, <<>>)

\* read that fills the whole buffer, without limiting it to attr.size.
read_without_size_limit(s, ino, offset, len, handle) ==
    LET h0 == s.read_handles[handle] IN
    IF h0.attr.kind = Directory THEN Ret("InvalidInodeType", s, <<>>)
    ELSE
    LET c == IF h0.position # offset /\ h0.position > offset
             THEN create_read_handle(s, ino, handle)
             ELSE Ret("Ok", s, 0)
    IN
    IF c.res # "Ok" THEN Ret(c.res, c.s, <<>>)
    ELSE
    LET p == IF h0.position # offset /\ offset > 0
             THEN ReadSkipLoop(c.s, handle, offset)
             ELSE Ret("Ok", c.s, <<>>)
    IN
    IF p.res # "Ok" THEN p
    ELSE
    LET h == p.s.read_handles[handle]
        d == DecRead(p.s.disk, h.decryptor, len, <<>>)
    IN
    IF ~d.ok
    THEN Ret("Io", [p.s EXCEPT !.read_handles[handle].decryptor = d.dec], <<>>)
    ELSE Ret("Ok",
             [p.s EXCEPT !.read_handles[handle].decryptor = d.dec,
                         !.read_handles[handle].position = h.position + len,
                         !.read_handles[handle].attr.atime = handle],
             d.data)

\* read(ino, offset, buf, handle) with len = buf.len(); out is the bytes that
\* were put in buf (the call returns their number).
read(s, ino, offset, len, handle) ==
    LET h0 == s.read_handles[handle] IN
    IF h0.attr.kind = Directory THEN Ret("InvalidInodeType", s, <<>>)
    ELSE
    LET c == IF h0.position # offset /\ h0.position > offset
             THEN create_read_handle(s, ino, handle)
             ELSE Ret("Ok", s, 0)
    IN
    IF c.res # "Ok" THEN Ret(c.res, c.s, <<>>)
    ELSE
    LET p == IF h0.position # offset /\ offset > 0
             THEN ReadSkipLoop(c.s, handle, offset)
             ELSE Ret("Ok", c.s, <<>>)
    IN
    IF p.res # "Ok" THEN p
    ELSE
    LET h == p.s.read_handles[handle] IN
    \* buf[..(attr.size - offset) as usize] with attr.size < offset
    IF offset + len > h.attr.size /\ h.attr.size < offset THEN Ret("Panic", p.s, <<>>)
    ELSE
    LET n == IF offset + len > h.attr.size THEN h.attr.size - offset ELSE len
        d == DecRead(p.s.disk, h.decryptor, n, <<>>)
    IN
    IF ~d.ok
    THEN Ret("Io", [p.s EXCEPT !.read_handles[handle].decryptor = d.dec], <<>>)
    ELSE Ret("Ok",
             [p.s EXCEPT !.read_handles[handle].decryptor = d.dec,
                         !.read_handles[handle].position = h.position + n,
                         \* attr.atime = SystemTime::now()
                         !.read_handles[handle].attr.atime = handle],
             d.data)

\* --------------------------------------------------------------- write_all

\* The rebuild loop of write_all: copy the first offset bytes of the
\* canonical file through the new encryptor.  An iteration with
\* read_len = 0 changes nothing and does not break ("Hang").
RECURSIVE RebuildLoop(_, _, _, _, _)
RebuildLoop(dk, decryptor, encryptor, pos_read, offset) ==
    LET read_len == IF pos_read + BUFFER_LEN > offset
                    THEN offset - pos_read ELSE BUFFER_LEN
    IN
    IF read_len > 0
    THEN LET d == DecRead(dk, decryptor, read_len, <<>>) IN
         IF ~d.ok THEN [res |-> "Io", disk |-> dk, enc |-> encryptor]
         ELSE LET w == EncWrite(dk, encryptor, d.data) IN
              IF pos_read + read_len = offset
              THEN [res |-> "Ok", disk |-> w.disk, enc |-> w.enc]
              ELSE RebuildLoop(w.disk, d.dec, w.enc, pos_read + read_len, offset)
    ELSE [res |-> "Hang", disk |-> dk, enc |-> encryptor]

\* replace_encryptor(handle, new_path, new_encryptor)
replace_encryptor(s, handle, new_path, new_encryptor) ==
    [s EXCEPT !.write_handles[handle].path = new_path,
              !.write_handles[handle].encryptor = new_encryptor]

\* OpenOptions::new().read(true).write(true).create(true).open(tmp_path)
OpenOrCreateTmp(s, ino, handle) ==
    IF <<ino, handle>> \in DOMAIN s.tmps THEN s
    ELSE LET f == NewFid(s) IN
         [s EXCEPT !.tmps = Put(s.tmps, <<ino, handle>>, f), !.disk = Put(s.disk, f, <<>>)]

\* write_all with the conventional size rule: the cached size becomes
\* max(old size, offset + len(buf)).
write_all_max_size(s, ino, offset, buf, handle) ==
    LET h0 == s.write_handles[handle] IN
    IF h0.attr.kind = Directory THEN Ret("InvalidInodeType", s, 0)
    ELSE
    LET b == IF h0.position # offset
             THEN IF ~ContentIsFile(s, h0.attr.ino) THEN Ret("Io", s, 0)
                  ELSE
                  LET s1 == OpenOrCreateTmp(s, h0.attr.ino, handle)
                      d == create_decryptor(s1, s1.files[h0.attr.ino])
                      e == create_encryptor(d.s, d.s.tmps[<<h0.attr.ino, handle>>])
                      l == RebuildLoop(e.s.disk, d.dec, e.enc, 0, offset)
                      s2 == [e.s EXCEPT !.disk = l.disk]
                  IN IF l.res # "Ok" THEN Ret(l.res, s2, 0)
                     ELSE Ret("Ok",
                              replace_encryptor(s2, handle,
                                                TmpPath(h0.attr.ino, handle), l.enc),
                              0)
             ELSE Ret("Ok", s, 0)
    IN
    IF b.res # "Ok" THEN b
    ELSE
    LET h == b.s.write_handles[handle]
        w == EncWrite(b.s.disk, h.encryptor, buf)
    IN Ret("Ok",
           [b.s EXCEPT !.disk = w.disk,
                       !.write_handles[handle].encryptor = w.enc,
                       !.write_handles[handle].position = offset + Len(buf),
                       !.write_handles[handle].attr.size =
                           IF h.attr.size > offset + Len(buf)
                           THEN h.attr.size ELSE offset + Len(buf)],
           0)

\* write_all(_ino, offset, buf, handle)
write_all(s, ino, offset, buf, handle) ==
    LET h0 == s.write_handles[handle] IN
    IF h0.attr.kind = Directory THEN Ret("InvalidInodeType", s, 0)
    ELSE
    LET b == IF h0.position # offset
             THEN IF ~ContentIsFile(s, h0.attr.ino) THEN Ret("Io", s, 0)
                  ELSE
                  LET s1 == OpenOrCreateTmp(s, h0.attr.ino, handle)
                      d == create_decryptor(s1, s1.files[h0.attr.ino])
                      e == create_encryptor(d.s, d.s.tmps[<<h0.attr.ino, handle>>])
                      l == RebuildLoop(e.s.disk, d.dec, e.enc, 0, offset)
                      s2 == [e.s EXCEPT !.disk = l.disk]
                  IN IF l.res # "Ok" THEN Ret(l.res, s2, 0)
                     ELSE Ret("Ok",
                              replace_encryptor(s2, handle,
                                                TmpPath(h0.attr.ino, handle), l.enc),
                              0)
             ELSE Ret("Ok", s, 0)
    IN
    IF b.res # "Ok" THEN b
    ELSE
    LET h == b.s.write_handles[handle]
        w == EncWrite(b.s.disk, h.encryptor, buf)
    IN Ret("Ok",
           [b.s EXCEPT !.disk = w.disk,
                       !.write_handles[handle].encryptor = w.enc,
                       !.write_handles[handle].position = offset + Len(buf),
                       !.write_handles[handle].attr.size = offset + Len(buf)],
           0)

\* ============================================================ crypto/writer
\* The streaming writers of src/src/crypto/writer.rs.  A writer's sink is
\* modelled by the sequence of sealed chunks that reached it.

\* ----------------------------------------------------------- AEAD chunks

\* The nonce RandomNonceSequence hands out on its k-th call (from 0): the
\* k-th output of the generator seeded with seed.
Nonce(seed, k) == 2 * k + seed

\* seal_in_place_separate_tag: the data encrypted under the nonce, and a tag
\* that binds the ciphertext to the nonce.
Seal(nonce, data) ==
    LET ct == [i \in 1..Len(data) |-> Crypt(nonce, i - 1, data[i])] IN
    [ct |-> ct, tag |-> <<nonce, ct>>]

\* Opening a chunk under a nonce: the tag is verified, then the data
\* decrypted.
OpenChunk(nonce, chunk) ==
    IF chunk.tag # <<nonce, chunk.ct>> THEN [ok |-> FALSE, data |-> <<>>]
    ELSE [ok |-> TRUE,
          data |-> [i \in 1..Len(chunk.ct) |-> Crypt(nonce, i - 1, chunk.ct[i])]]

\* The reader over a sealed file: the chunks opened in order with the nonce
\* sequence of seed; fails on the first tag mismatch.
RECURSIVE ReadChunks(_, _, _, _)
ReadChunks(chunks, seed, k, acc) ==
    IF chunks = <<>> THEN [ok |-> TRUE, data |-> acc]
    ELSE LET o == OpenChunk(Nonce(seed, k), Head(chunks)) IN
         IF ~o.ok THEN [ok |-> FALSE, data |-> <<>>]
         ELSE ReadChunks(Tail(chunks), seed, k + 1, acc \o o.data)

\* The plaintext of a sealed file under seed.
Plain(chunks, seed) == ReadChunks(chunks, seed, 0, <<>>)

\* ------------------------------------------------------------------ BufMut

\* BufMut::available: the bytes held.
BufMut_available(buf) == Len(buf)

\* BufMut::remaining: the room left.
BufMut_remaining(buf) == BUF_SIZE - Len(buf)

\* BufMut::write: takes as many bytes of src as there is room for.
BufMut_write(buf, src) ==
    LET len == Min(Len(src), BufMut_remaining(buf)) IN
    [buf |-> buf \o SubSeq(src, 1, len), len |-> len]

\* -------------------------------------------------------- RingCryptoWriter

\* RandomNonceSequence::new(seed)
RandomNonceSequence_new(seed) == [seed |-> seed, n |-> 0]

\* RandomNonceSequence::advance
advance(nonce_sequence) ==
    [nonce |-> Nonce(nonce_sequence.seed, nonce_sequence.n),
     seq |-> [nonce_sequence EXCEPT !.n = @ + 1]]

\* RingCryptoWriter::new(w, algorithm, key, nonce_seed).  out.data is what
\* reached the sink w; sealed and repeated record the nonces the seal
\* operations on this file have used so far, and whether one was used twice.
RingCryptoWriter_new(nonce_seed, sealed, repeated) ==
    [out |-> [some |-> TRUE, data |-> <<>>],
     sealing_key |-> RandomNonceSequence_new(nonce_seed),
     buf |-> <<>>,
     sealed |-> sealed,
     repeated |-> repeated]

\* encrypt_and_write: seal the buffer, write ciphertext and tag, clear the
\* buffer.  The seal comes first, so a finished writer (out is None)
\* panics on the unwrap after its nonce was taken.
encrypt_and_write(r) ==
    LET a == advance(r.sealing_key)
        r1 == [r EXCEPT !.sealing_key = a.seq,
                        !.sealed = @ \cup {a.nonce},
                        !.repeated = @ \/ a.nonce \in r.sealed]
    IN IF ~r.out.some THEN Ret("Panic", r1, 0)
       ELSE Ret("Ok",
                [r1 EXCEPT !.out.data = Append(@, Seal(a.nonce, r.buf)),
                           !.buf = <<>>],
                0)

\* A flush that seals whatever the buffer holds.
RingCryptoWriter_flush_partial(r) ==
    IF BufMut_available(r.buf) = 0 THEN Ret("Ok", r, 0)
    ELSE encrypt_and_write(r)

\* RingCryptoWriter::flush
RingCryptoWriter_flush(r) ==
    IF BufMut_available(r.buf) = 0 THEN Ret("Ok", r, 0)
    ELSE IF BufMut_remaining(r.buf) = 0
    \* encrypt and write when we have a full buffer
    THEN encrypt_and_write(r)
    ELSE Ret("Ok", r, 0)

\* RingCryptoWriter::write: Ok(len) with the number of bytes taken.
RingCryptoWriter_write(r, buf) ==
    LET f == IF BufMut_remaining(r.buf) = 0 THEN RingCryptoWriter_flush(r)
             ELSE Ret("Ok", r, 0)
    IN IF f.res # "Ok" THEN f
       ELSE LET b == BufMut_write(f.s.buf, buf) IN
            Ret("Ok", [f.s EXCEPT !.buf = b.buf], b.len)

\* RingCryptoWriter::finish: Ok(w) with the sink.
RingCryptoWriter_finish(r) ==
    IF ~r.out.some THEN Ret("Other", r, <<>>)
    ELSE
    LET e == IF BufMut_available(r.buf) > 0
             \* encrypt and write last block, use as many bytes we have
             THEN encrypt_and_write(r)
             ELSE Ret("Ok", r, 0)
    IN IF e.res # "Ok" THEN Ret(e.res, e.s, <<>>)
       ELSE Ret("Ok", [e.s EXCEPT !.out.some = FALSE], e.s.out.data)

\* Write::write_all on a RingCryptoWriter: write until buf is taken.
RECURSIVE RingCryptoWriter_write_all(_, _)
RingCryptoWriter_write_all(r, buf) ==
    IF buf = <<>> THEN Ret("Ok", r, 0)
    ELSE LET w == RingCryptoWriter_write(r, buf) IN
         IF w.res # "Ok" THEN w
         ELSE IF w.out = 0 THEN Ret("WriteZero", w.s, 0)
         ELSE RingCryptoWriter_write_all(w.s, SubSeq(buf, w.out + 1, Len(buf)))

\* -------------------------------------------------------- FileCryptoWriter

\* The nonce seed of the one file under the writer.
NonceSeed == 1

\* crypto::create_writer(tmp_file, cipher, key, nonce_seed)
create_writer(nonce_seed, sealed, repeated) ==
    RingCryptoWriter_new(nonce_seed, sealed, repeated)

\* What the callback and the host saw of the call in progress.
Renamed == "rename"

Changed(pos) == <<"on_file_content_changed", pos>>

Wrote == "write"

\* FileCryptoWriter::new(file_path, tmp_dir, cipher, key, nonce_seed,
\* callback) over a canonical file holding the chunks file.
\*   file        the chunks of the canonical file self.file
\*   tmp_exists  whether self.tmp_file_path exists in tmp_dir; its content
\*               is writer.out.data
\*   events      the renames, callbacks and writes of the call in progress
\*   dropped     the writer was dropped
FileCryptoWriter_new(file, nonce_seed) ==
    [file |-> file,
     tmp_exists |-> TRUE,
     writer |-> create_writer(nonce_seed, {}, FALSE),
     nonce_seed |-> nonce_seed,
     pos |-> 0,
     events |-> <<>>,
     dropped |-> FALSE]

\* FileCryptoWriter::write
FileCryptoWriter_write(w, buf) ==
    LET r == RingCryptoWriter_write(w.writer, buf) IN
    IF r.res # "Ok" THEN Ret(r.res, [w EXCEPT !.writer = r.s], 0)
    ELSE Ret("Ok",
             [w EXCEPT !.writer = r.s,
                       !.pos = @ + r.out,
                       !.events = IF r.out = 0 \/ (@ # <<>> /\ @[Len(@)] = Wrote)
                                  THEN @ ELSE Append(@, Wrote)],
             r.out)

\* A step of a method runs on the state the step before it left, unless
\* that step returned an error (the ? operator).  The step before is
\* evaluated once, as the one element v of a set.
AndThen(r, Step(_)) ==
    CHOOSE x \in {IF v.res # "Ok" THEN v ELSE Step(v.s) : v \in {r}} : TRUE

\* Write::write_all on a FileCryptoWriter.
RECURSIVE FileCryptoWriter_write_all(_, _)
FileCryptoWriter_write_all(w, buf) ==
    IF buf = <<>> THEN Ret("Ok", w, 0)
    ELSE AndThen(FileCryptoWriter_write(w, buf),
                 LAMBDA s : IF s.pos = w.pos THEN Ret("WriteZero", s, 0)
                            ELSE FileCryptoWriter_write_all(
                                    s, SubSeq(buf, s.pos - w.pos + 1, Len(buf))))

\* crypto::copy_from_file(file, pos, len, cipher, key, nonce_seed, writer,
\* stop_on_eof = true): the plaintext of the canonical file in
\* [pos, min(pos + len, eof)) is written through the writer.
copy_from_file(w, pos, len) ==
    LET p == Plain(w.file, w.nonce_seed) IN
    IF len = 0 THEN Ret("Ok", w, 0)
    ELSE IF ~p.ok THEN Ret("CryptoFailure", w, 0)
    ELSE IF pos >= Len(p.data) THEN Ret("Ok", w, 0)
    ELSE FileCryptoWriter_write_all(w,
            SubSeq(p.data, pos + 1, pos + Min(len, Len(p.data) - pos)))

\* crypto::copy_from_file_exact: as copy_from_file, but the end of the file
\* before pos + len is an error.
copy_from_file_exact(w, pos, len) ==
    LET p == Plain(w.file, w.nonce_seed) IN
    IF len = 0 THEN Ret("Ok", w, 0)
    ELSE IF ~p.ok THEN Ret("CryptoFailure", w, 0)
    ELSE IF pos > Len(p.data) \/ len > Len(p.data) - pos
    THEN Ret("UnexpectedEof", w, 0)
    ELSE FileCryptoWriter_write_all(w, SubSeq(p.data, pos + 1, pos + len))

\* stream_util::fill_zeros(writer, len)
fill_zeros(w, len) == FileCryptoWriter_write_all(w, [i \in 1..len |-> 0])

\* The steps of seek_from_start at which the host or the callback can
\* return an error.
Faults == {"none", "flush", "copy", "fill_zeros", "finish", "rename", "create",
           "callback", "copy_exact"}

\* u64::MAX as a length: more than any file holds.
U64_MAX == 2147483647

\* An error of the host or of the callback at the step named fault.
Fails(fault, step) == fault = step

\* seek forward: copy [self.pos, pos) of the canonical file.
SeekCopyGap(w, pos, fault) ==
    IF Fails(fault, "copy") THEN Ret("Io", w, 0)
    ELSE copy_from_file(w, w.pos, pos - w.pos)

\* seek forward: eof, we write zeros until pos.
SeekFillZeros(w, pos, fault) ==
    IF w.pos < pos
    THEN IF Fails(fault, "fill_zeros") THEN Ret("Io", w, 0)
         ELSE fill_zeros(w, pos - w.pos)
    ELSE Ret("Ok", w, 0)

\* seek backward: write dirty data.  The flush touches the host only when
\* the buffer is full.
SeekFlush(w, fault) ==
    IF Fails(fault, "flush") /\ BufMut_remaining(w.writer.buf) = 0
    THEN Ret("Io", w, 0)
    ELSE LET f == RingCryptoWriter_flush(w.writer) IN
         Ret(f.res, [w EXCEPT !.writer = f.s], 0)

\* seek backward: write any remaining data from file.
SeekCopySuffix(w, fault) ==
    IF Fails(fault, "copy") THEN Ret("Io", w, 0)
    ELSE copy_from_file(w, w.pos, U64_MAX)

\* seek backward: self.writer.finish().  The finish touches the host only
\* when the buffer holds bytes.
SeekFinish(w, fault) ==
    IF Fails(fault, "finish") /\ BufMut_available(w.writer.buf) > 0
    THEN Ret("Io", w, 0)
    ELSE LET n == RingCryptoWriter_finish(w.writer) IN
         Ret(n.res, [w EXCEPT !.writer = n.s], 0)

\* seek backward: move tmp file to file.
SeekRename(w, fault) ==
    IF Fails(fault, "rename") \/ ~w.tmp_exists THEN Ret("Io", w, 0)
    ELSE Ret("Ok",
             [w EXCEPT !.file = w.writer.out.data,
                       !.tmp_exists = FALSE,
                       !.events = Append(@, Renamed)],
             0)

\* seek backward: recreate writer on a new file in tmp_dir; self.pos = 0.
SeekRecreate(w, fault) ==
    IF Fails(fault, "create") THEN Ret("Io", w, 0)
    ELSE Ret("Ok",
             [w EXCEPT !.writer = create_writer(w.nonce_seed, w.writer.sealed,
                                                w.writer.repeated),
                       !.tmp_exists = TRUE,
                       !.pos = 0],
             0)

\* seek backward: notify back that file content has changed.
SeekNotify(w, fault) ==
    Ret(IF Fails(fault, "callback") THEN "Other" ELSE "Ok",
        [w EXCEPT !.events = Append(@, Changed(0))],
        0)

\* seek backward: copy until pos.
SeekCopyUntil(w, pos, fault) ==
    IF Fails(fault, "copy_exact") THEN Ret("Io", w, 0)
    ELSE copy_from_file_exact(w, w.pos, pos)

\* Ok(self.pos)
SeekDone(w) == Ret("Ok", w, w.pos)

\* seek_from_start whose backward seek does not copy the rest of the
\* canonical file into the staging file.
seek_from_start_losing_suffix(w, pos, fault) ==
    IF pos = w.pos THEN Ret("Ok", w, pos)
    ELSE IF w.pos < pos
    THEN AndThen(AndThen(SeekCopyGap(w, pos, fault),
                         LAMBDA s : SeekFillZeros(s, pos, fault)),
                 SeekDone)
    ELSE AndThen(AndThen(AndThen(AndThen(AndThen(AndThen(
            SeekFlush(w, fault),
            LAMBDA s : SeekFinish(s, fault)),
            LAMBDA s : SeekRename(s, fault)),
            LAMBDA s : SeekRecreate(s, fault)),
            LAMBDA s : SeekNotify(s, fault)),
            LAMBDA s : SeekCopyUntil(s, pos, fault)),
            SeekDone)

\* FileCryptoWriter::seek_from_start(pos); fault names the step, if any,
\* at which the host or the callback returns an error.
seek_from_start(w, pos, fault) ==
    IF pos = w.pos THEN Ret("Ok", w, pos)
    ELSE IF w.pos < pos
    THEN AndThen(AndThen(SeekCopyGap(w, pos, fault),
                         LAMBDA s : SeekFillZeros(s, pos, fault)),
                 SeekDone)
    ELSE AndThen(AndThen(AndThen(AndThen(AndThen(AndThen(AndThen(
            SeekFlush(w, fault),
            LAMBDA s : SeekCopySuffix(s, fault)),
            LAMBDA s : SeekFinish(s, fault)),
            LAMBDA s : SeekRename(s, fault)),
            LAMBDA s : SeekRecreate(s, fault)),
            LAMBDA s : SeekNotify(s, fault)),
            LAMBDA s : SeekCopyUntil(s, pos, fault)),
            SeekDone)

\* FileCryptoWriter::seek(SeekFrom)
seek(w, whence, n, fault) ==
    IF whence = "End" THEN Ret("Other", w, 0)
    ELSE IF whence = "Current" /\ w.pos + n < 0 THEN Ret("InvalidInput", w, 0)
    ELSE seek_from_start(w, IF whence = "Start" THEN n ELSE w.pos + n, fault)

\* FileCryptoWriter::flush
FileCryptoWriter_flush(w, fault) ==
    \* this will handle the flush and write any dirty data
    [seek(w, "Start", 0, fault) EXCEPT !.out = 0]

\* FileCryptoWriter::finish: Ok(File) with the canonical file.
FileCryptoWriter_finish(w, fault) ==
    AndThen(FileCryptoWriter_flush(w, fault), LAMBDA s : Ret("Ok", s, s.file))

\* Dropping a FileCryptoWriter drops its fields: the sink is closed, the
\* buffered plaintext is discarded, the paths are freed.  Nothing removes
\* the file at tmp_file_path.
FileCryptoWriter_drop(w) == [w EXCEPT !.dropped = TRUE]

\* ------------------------------------------------- the writers' callers

\* The sealed file a writer with the same seed leaves for the plaintext
\* content.
InitialFile(content) ==
    RingCryptoWriter_finish(
        RingCryptoWriter_write_all(RingCryptoWriter_new(NonceSeed, {}, FALSE),
                                   content).s).out

\* A random-access file: a seek past the end fills the gap with zeros.
RefSeek(content, target) ==
    IF target <= Len(content) THEN content
    ELSE content \o [i \in 1..(target - Len(content)) |-> 0]

\* A random-access file: bytes written at position pos.
RefWrite(content, pos, bytes) ==
    [i \in 1..(IF pos + Len(bytes) > Len(content)
               THEN pos + Len(bytes) ELSE Len(content)) |->
        IF i > pos /\ i <= pos + Len(bytes) THEN bytes[i - pos] ELSE content[i]]

\* A FileCryptoWriter on a file holding content, with the reference file it
\* is compared to:
\*   w         the writer and its files
\*   ref       the reference file's content, ref_pos its position, while
\*             plain holds (and an empty file otherwise)
\*   plain     only seek_from_start and write were called so far
\*   finished  finish has returned Ok
\*   failed    a call has returned an error
NewFileWriter(content) ==
    [w |-> FileCryptoWriter_new(InitialFile(content), NonceSeed),
     ref |-> content,
     ref_pos |-> 0,
     plain |-> TRUE,
     finished |-> FALSE,
     failed |-> FALSE]

\* A RingCryptoWriter on an empty sink, with the bytes its write calls
\* reported as taken.
NewRingWriter ==
    [r |-> RingCryptoWriter_new(NonceSeed, {}, FALSE), accepted |-> <<>>]

\* ----------------------------------------------------------- construction

\* ensure_root_exists that also writes a "$.." entry, as create_nod does
\* for the directories it creates.
ensure_root_exists_with_parent_link(s) ==
    IF node_exists(s, ROOT_INODE) THEN s
    ELSE LET attr == [ino |-> ROOT_INODE, kind |-> Directory, size |-> 0,
                      perm |-> 493, nlink |-> 2, atime |-> 0]
             s1 == write_inode(s, attr)
             s2 == [s1 EXCEPT !.dirs = Put(s1.dirs, attr.ino, <<>>)]
             e1 == insert_directory_entry(s2, attr.ino,
                      [ino |-> attr.ino, name |-> MDot, kind |-> Directory])
         IN insert_directory_entry(e1.s, attr.ino,
                [ino |-> attr.ino, name |-> MDotDot, kind |-> Directory]).s

\* ensure_root_exists on an empty data directory.
ensure_root_exists(s) ==
    IF node_exists(s, ROOT_INODE) THEN s
    ELSE LET attr == [ino |-> ROOT_INODE, kind |-> Directory, size |-> 0,
                      perm |-> 493, nlink |-> 2, atime |-> 0]
             s1 == write_inode(s, attr)
             s2 == [s1 EXCEPT !.dirs = Put(s1.dirs, attr.ino, <<>>)]
         IN insert_directory_entry(s2, attr.ino,
                [ino |-> attr.ino, name |-> MDot, kind |-> Directory]).s

\* EncryptedFs::new(data_dir) on an empty data directory.
new ==
    ensure_root_exists(
        [inodes |-> <<>>, dirs |-> <<>>, files |-> <<>>, tmps |-> <<>>,
         disk |-> <<>>, read_handles |-> <<>>, write_handles |-> <<>>,
         current_file_handle |-> 0])

Init ==
    /\ inodes = new.inodes
    /\ dirs = new.dirs
    /\ files = new.files
    /\ tmps = new.tmps
    /\ disk = new.disk
    /\ read_handles = new.read_handles
    /\ write_handles = new.write_handles
    /\ current_file_handle = new.current_file_handle
    /\ status = "running"
    /\ file_writer = NewFileWriter(<<>>)
    /\ ring_writer = NewRingWriter

\* ----------------------------------------------------------------- actions

\* The names the actions pass.
Names == {<<"a">>, <<"b">>, Dot, DotDot}

\* The names a caller may pass: also one with a separator and the reserved
\* on-disk names.
AnyNames == Names \cup {<<"b", "\\">>, MDot, MDotDot}

Kinds == {Directory, RegularFile, Symlink}

\* The inode numbers callers pass.
Inos == ROOT_INODE..MaxIno

\* The buffers callers pass to write_all.
Bufs == UNION {[1..n -> Byte] : n \in 0..MaxLen}

\* The buffers the write_all steps of the file specification pass.
WriteBufs == {<<>>, <<1>>, <<0, 1>>}

\* The handles that are in a handle table.
OpenHandles(s) == (DOMAIN s.read_handles) \cup (DOMAIN s.write_handles)

\* A call returns and leaves state r.s; a call that never returns ("Hang")
\* or panics leaves the engine with no further calls.
Apply(r) ==
    LET s == Collect(r.s) IN
    /\ inodes' = s.inodes
    /\ dirs' = s.dirs
    /\ files' = s.files
    /\ tmps' = s.tmps
    /\ disk' = s.disk
    /\ read_handles' = s.read_handles
    /\ write_handles' = s.write_handles
    /\ current_file_handle' = s.current_file_handle
    /\ status' = CASE r.res = "Hang" -> "hung"
                   [] r.res = "Panic" -> "panicked"
                   [] OTHER -> "running"
    /\ UNCHANGED <<file_writer, ring_writer>>

CreateNod(parent, name, kind, rd, wr, ino) ==
    /\ status = "running"
    /\ current_file_handle < MaxHandle
    /\ ino \in generate_next_inode(St)
    /\ Apply(create_nod(St, parent, name, NewAttr(kind), rd, wr, ino))

RemoveDir(parent, name) ==
    /\ status = "running"
    /\ Apply(remove_dir(St, parent, name))

RemoveFile(parent, name) ==
    /\ status = "running"
    /\ Apply(remove_file(St, parent, name))

Rename(parent, name, new_parent, new_name) ==
    /\ status = "running"
    /\ Apply(rename(St, parent, name, new_parent, new_name))

Open(ino, rd, wr) ==
    /\ status = "running"
    /\ current_file_handle < MaxHandle
    /\ Apply(open(St, ino, rd, wr))

Truncate(ino, size) ==
    /\ status = "running"
    /\ Apply(truncate(St, ino, size))

\* read is called with a read handle and that handle's inode.
Read(handle, offset, len) ==
    /\ status = "running"
    /\ handle \in DOMAIN read_handles
    /\ Apply(read(St, read_handles[handle].attr.ino, offset, len, handle))

\* write_all is called with a write handle and that handle's inode.
WriteAll(handle, offset, buf) ==
    /\ status = "running"
    /\ handle \in DOMAIN write_handles
    /\ offset + Len(buf) <= MaxLen
    /\ Apply(write_all(St, write_handles[handle].attr.ino, offset, buf, handle))

ReleaseHandle(handle) ==
    /\ status = "running"
    /\ Apply(release_handle(St, handle))

\* The namespace operations, on every parent and name.
Next ==
    \/ \E parent \in Inos, name \in Names, kind \in Kinds, ino \in Inos :
          CreateNod(parent, name, kind, TRUE, TRUE, ino)
    \/ \E parent \in Inos, name \in Names : RemoveDir(parent, name)
    \/ \E parent \in Inos, name \in Names : RemoveFile(parent, name)
    \/ \E parent \in Inos, name \in Names, new_parent \in Inos, new_name \in Names :
          Rename(parent, name, new_parent, new_name)
    \/ \E handle \in 1..MaxHandle : ReleaseHandle(handle)

Spec == Init /\ [][Next]_vars

\* The file operations, on one regular file "a" of the root: open while fewer
\* than MaxOpen handles are open, truncate while none is.
NextIO ==
    \/ \E rd \in BOOLEAN, wr \in BOOLEAN :
          CreateNod(ROOT_INODE, <<"a">>, RegularFile, rd, wr, ROOT_INODE + 1)
    \/ \E rd \in BOOLEAN, wr \in BOOLEAN :
          /\ Cardinality(OpenHandles(St)) < MaxOpen
          /\ Open(ROOT_INODE + 1, rd, wr)
    \/ \E handle \in 1..MaxHandle, offset \in 0..MaxLen, len \in 0..MaxLen :
          Read(handle, offset, len)
    \/ \E handle \in 1..MaxHandle, offset \in 0..MaxLen, buf \in WriteBufs :
          WriteAll(handle, offset, buf)
    \/ \E size \in 0..1 :
          /\ OpenHandles(St) = {}
          /\ Truncate(ROOT_INODE + 1, size)
    \/ \E handle \in 1..MaxHandle : ReleaseHandle(handle)

SpecIO == Init /\ [][NextIO]_vars

\* ------------------------------------------------- actions of the writers

\* The contents the canonical file starts with.
WContents == {<<>>, <<1>>, <<1, 1, 0>>}

\* The buffers the writers are handed.
WBufs == {<<>>, <<1>>, <<0, 1>>}

fs_vars == <<inodes, dirs, files, tmps, disk, read_handles, write_handles,
             current_file_handle, status>>

\* The writer at the start of a call.
Called == [file_writer.w EXCEPT !.events = <<>>]

\* The caller makes calls on a writer that was not dropped and has not
\* returned an error: after an error the caller drops the writer.
InUse == ~file_writer.w.dropped /\ ~file_writer.failed

\* A call on the writer returns; a panic unwinds and drops the writer.
ApplyW(r, ref, ref_pos, plain, finished) ==
    /\ file_writer' = [w |-> IF r.res = "Panic" THEN FileCryptoWriter_drop(r.s)
                             ELSE r.s,
                       ref |-> ref, ref_pos |-> ref_pos,
                       plain |-> plain, finished |-> finished,
                       failed |-> r.res # "Ok"]
    /\ UNCHANGED <<fs_vars, ring_writer>>

SeekFromStart(target, fault) ==
    /\ InUse
    /\ LET r == seek_from_start(Called, target, fault) IN
       IF r.res = "Ok"
       THEN ApplyW(r,
                   IF file_writer.plain THEN RefSeek(file_writer.ref, target)
                   ELSE <<>>,
                   IF file_writer.plain THEN target ELSE 0,
                   file_writer.plain, file_writer.finished)
       ELSE ApplyW(r, file_writer.ref, file_writer.ref_pos,
                   file_writer.plain, file_writer.finished)

FileWrite(buf) ==
    /\ InUse
    /\ file_writer.w.pos + Len(buf) <= MaxPos
    /\ LET r == FileCryptoWriter_write(Called, buf) IN
       IF r.res = "Ok"
       THEN ApplyW(r,
                   IF file_writer.plain
                   THEN RefWrite(file_writer.ref, file_writer.ref_pos,
                                 SubSeq(buf, 1, r.out))
                   ELSE <<>>,
                   IF file_writer.plain THEN file_writer.ref_pos + r.out ELSE 0,
                   file_writer.plain, file_writer.finished)
       ELSE ApplyW(r, file_writer.ref, file_writer.ref_pos,
                   file_writer.plain, file_writer.finished)

FileFlush(fault) ==
    /\ InUse
    /\ ApplyW(FileCryptoWriter_flush(Called, fault),
              <<>>, 0, FALSE, file_writer.finished)

FileFinish(fault) ==
    /\ InUse
    /\ LET r == FileCryptoWriter_finish(Called, fault) IN
       ApplyW(r, <<>>, 0, FALSE, file_writer.finished \/ r.res = "Ok")

FileDrop ==
    /\ ~file_writer.w.dropped
    /\ file_writer' = [file_writer EXCEPT !.w = FileCryptoWriter_drop(@)]
    /\ UNCHANGED <<fs_vars, ring_writer>>

InitFile ==
    /\ inodes = new.inodes
    /\ dirs = new.dirs
    /\ files = new.files
    /\ tmps = new.tmps
    /\ disk = new.disk
    /\ read_handles = new.read_handles
    /\ write_handles = new.write_handles
    /\ current_file_handle = new.current_file_handle
    /\ status = "running"
    /\ file_writer \in {NewFileWriter(content) : content \in WContents}
    /\ ring_writer = NewRingWriter

\* One FileCryptoWriter from FileCryptoWriter::new to its drop.
NextFile ==
    \/ \E target \in 0..MaxPos, fault \in Faults : SeekFromStart(target, fault)
    \/ \E buf \in WBufs : FileWrite(buf)
    \/ \E fault \in Faults : FileFlush(fault)
    \/ \E fault \in Faults : FileFinish(fault)
    \/ FileDrop

SpecFile == InitFile /\ [][NextFile]_vars

\* A call on the ring writer returns, having taken n bytes of buf.
ApplyR(r, buf, n) ==
    /\ ring_writer' = [r |-> r.s,
                       accepted |-> ring_writer.accepted \o SubSeq(buf, 1, n)]
    /\ UNCHANGED <<fs_vars, file_writer>>

RingWrite(buf) ==
    /\ ring_writer.r.out.some
    /\ Len(ring_writer.accepted) + Len(buf) <= MaxRing
    /\ LET r == RingCryptoWriter_write(ring_writer.r, buf) IN
       ApplyR(r, buf, IF r.res = "Ok" THEN r.out ELSE 0)

RingFlush ==
    /\ ring_writer.r.out.some
    /\ ApplyR(RingCryptoWriter_flush(ring_writer.r), <<>>, 0)

RingFinish ==
    /\ ring_writer.r.out.some
    /\ ApplyR(RingCryptoWriter_finish(ring_writer.r), <<>>, 0)

\* One RingCryptoWriter: write and flush calls, then one finish.
NextRing ==
    \/ \E buf \in WBufs : RingWrite(buf)
    \/ RingFlush
    \/ RingFinish

SpecRing == Init /\ [][NextRing]_vars

\* ------------------------------------------------- claims on the namespace

\* The engine accepts calls: no call has panicked or is stuck in a loop.
Running == status = "running"

\* The directory entries of contents/<ino> other than "$." and "$..".
RealEntries(s, ino) == (DOMAIN s.dirs[ino]) \ {MDot, MDotDot}

\* C1: in every reachable state an inode record exists under inodes/<ino>
\* if and only if a content object exists under contents/<ino>, and the
\* content object is a directory exactly when the inode's kind is Directory.
C1_InodeContentMatch ==
    /\ DOMAIN inodes = (DOMAIN dirs) \cup (DOMAIN files)
    /\ \A ino \in DOMAIN inodes :
          ContentIsDir(St, ino) <=> inodes[ino].kind = Directory

\* C2: in every reachable state every directory entry, "$." and "$.."
\* included, names an inode whose record exists and whose kind is the kind
\* stored in the entry.
C2_EntriesNameInodes ==
    \A parent \in DOMAIN dirs : \A name \in DOMAIN dirs[parent] :
        LET entry == dirs[parent][name] IN
        /\ HasInode(St, entry.ino)
        /\ get_inode(St, entry.ino).kind = entry.kind

\* C3: in every reachable state inode 1 exists and its kind is Directory.
C3_RootIsDirectory == is_dir(St, ROOT_INODE)

\* C4: whenever the directory that (parent, name) resolves to holds an entry
\* other than "$." and "$..", remove_dir(parent, name) returns NotEmpty and
\* changes nothing; this for every parent and name, "." and ".." included.
C4_RemoveDirOnlyEmpty ==
    Running =>
    \A parent \in Inos, name \in AnyNames :
        LET f == find_by_name(St, parent, name)
            r == remove_dir(St, parent, name)
        IN (/\ is_dir(St, parent)
            /\ f.res = "Ok" /\ f.out # NoAttr
            /\ f.out.kind = Directory
            /\ ContentIsDir(St, f.out.ino)
            /\ RealEntries(St, f.out.ino) # {})
           => (r.res = "NotEmpty" /\ r.s = St)

\* C9: for every (parent, name) that names an entry and every other target
\* (new_parent, new_name) in a directory, when rename returns Ok,
\* find_by_name(new_parent, new_name) returns the moved inode and
\* find_by_name(parent, name) returns None.  (Left out: the call with the
\* target equal to the source, which the code answers with Ok and no change,
\* and the on-disk names "$." and "$..".)
C9_RenameMoves ==
    Running =>
    \A parent \in Inos, new_parent \in Inos :
    \A name \in AnyNames \ {MDot, MDotDot}, new_name \in AnyNames \ {MDot, MDotDot} :
        LET f == find_by_name(St, parent, name)
            r == rename(St, parent, name, new_parent, new_name)
        IN (/\ f.res = "Ok" /\ f.out # NoAttr
            /\ is_dir(St, new_parent)
            /\ <<parent, name>> # <<new_parent, new_name>>
            /\ r.res = "Ok")
           => (/\ find_by_name(r.s, new_parent, new_name).res = "Ok"
               /\ find_by_name(r.s, new_parent, new_name).out.ino = f.out.ino
               /\ find_by_name(r.s, parent, name) = Ret("Ok", r.s, NoAttr))

\* The inodes that a path of entries other than "$." and "$.." leads to
\* from the inodes of seen.
RECURSIVE Reachable(_, _)
Reachable(s, seen) ==
    LET more == {s.dirs[p][n].ino : <<p, n>> \in
                    {pn \in seen \X AnyNames :
                        /\ ContentIsDir(s, pn[1])
                        /\ pn[2] \in RealEntries(s, pn[1])}}
    IN IF more \subseteq seen THEN seen ELSE Reachable(s, seen \cup more)

\* C10: in every reachable state every inode record is reachable from inode 1
\* by following directory entries other than "$." and "$..".
C10_AllInodesReachable == DOMAIN inodes \subseteq Reachable(St, {ROOT_INODE})

\* ------------------------------------------------------ claims on file I/O

\* The write handles of regular files.
FileWriteHandles == {h \in DOMAIN write_handles : write_handles[h].attr.kind = RegularFile}

\* open(ino, read) followed by read(ino, offset, len) on the new handle.
OpenAndRead(s, ino, offset, len) ==
    LET o == open(s, ino, TRUE, FALSE) IN
    IF o.res # "Ok" THEN Ret(o.res, o.s, <<>>)
    ELSE read(o.s, ino, offset, len, o.out)

\* C5: for every write handle of a regular file, every plaintext P and every
\* offset O, write_all(O, P); release_handle; open for read; read(O, len(P))
\* succeeds at each step and returns P.
C5_WriteReleaseRead ==
    Running =>
    \A handle \in FileWriteHandles, offset \in 0..MaxLen, P \in Bufs :
        offset + Len(P) <= MaxLen =>
        LET ino == write_handles[handle].attr.ino
            w == write_all(St, ino, offset, P, handle)
            l == release_handle(w.s, handle)
            r == OpenAndRead(l.s, ino, offset, Len(P))
        IN /\ w.res = "Ok"
           /\ l.res = "Ok"
           /\ r = Ret("Ok", r.s, P)

\* The (offset, buf) arguments of a write_all call.
Writes == {w \in [offset : 0..MaxLen, buf : Bufs] : w.offset + Len(w.buf) <= MaxLen}

\* What a write leaves of a file holding content: the bytes before its
\* offset, then its buffer.
Written(content, w) == SubSeq(content, 1, w.offset) \o w.buf

\* The content expected after the writes ws on an empty file.
RECURSIVE Expected(_)
Expected(ws) ==
    IF ws = <<>> THEN <<>>
    ELSE Written(Expected(SubSeq(ws, 1, Len(ws) - 1)), ws[Len(ws)])

\* Every write of ws starts inside the content the writes before it leave,
\* and after the handle's first byte: at the cursor for the first write, at
\* an offset of 1 or more for the later ones.
RECURSIVE Inside(_)
Inside(ws) ==
    \/ ws = <<>>
    \/ /\ Inside(SubSeq(ws, 1, Len(ws) - 1))
       /\ ws[Len(ws)].offset <= Len(Expected(SubSeq(ws, 1, Len(ws) - 1)))
       /\ Len(ws) > 1 => ws[Len(ws)].offset >= 1

\* The write_all calls ws, in order, on one handle; stops at the first error.
RECURSIVE WriteAllSeq(_, _, _, _)
WriteAllSeq(s, ino, handle, ws) ==
    IF ws = <<>> THEN Ret("Ok", s, 0)
    ELSE LET w == write_all(s, ino, Head(ws).offset, Head(ws).buf, handle) IN
         IF w.res # "Ok" THEN w ELSE WriteAllSeq(w.s, ino, handle, Tail(ws))

\* The write handles on which nothing was written yet, of empty files.
FreshWriteHandles ==
    {h \in FileWriteHandles :
        /\ write_handles[h].position = 0
        /\ ~write_handles[h].path.tmp
        /\ write_handles[h].attr.size = 0
        /\ ContentIsFile(St, write_handles[h].attr.ino)
        /\ write_handles[h].encryptor.fid = files[write_handles[h].attr.ino]
        /\ Len(disk[write_handles[h].encryptor.fid]) <= 1}

\* C6: for every sequence of at most MaxWrites write_all calls on one write
\* handle of an empty file, each at an offset inside what was written so far,
\* followed by release_handle, reading the whole file back gives the result
\* of applying the writes in call order, each keeping the bytes before its
\* offset and ending the file at offset + len.
C6_WritesInCallOrder ==
    Running =>
    \A handle \in FreshWriteHandles :
    \A n \in 0..MaxWrites : \A ws \in [1..n -> Writes] :
        Inside(ws) =>
        LET ino == write_handles[handle].attr.ino
            w == WriteAllSeq(St, ino, handle, ws)
            l == release_handle(w.s, handle)
            r == OpenAndRead(l.s, ino, 0, MaxLen)
        IN /\ w.res = "Ok"
           /\ l.res = "Ok"
           /\ r = Ret("Ok", r.s, Expected(ws))

\* What handles opened in state s can read of ino: the persisted size and
\* the result of reading the first n bytes through a new handle, for each n.
Observable(s, ino) ==
    [size |-> IF HasInode(s, ino) THEN get_inode(s, ino).size ELSE 0,
     data |-> [n \in 0..MaxLen |->
                  LET r == OpenAndRead(s, ino, 0, n) IN <<r.res, r.out>>]]

\* C7: what write_all writes on handle H is not observable through a handle
\* opened after the write and before release_handle(H), and is observable
\* through a handle opened after release_handle(H) has returned.
C7_VisibleOnlyAfterRelease ==
    Running =>
    \A handle \in FileWriteHandles, offset \in 0..MaxLen, buf \in Bufs :
        offset + Len(buf) <= MaxLen =>
        LET ino == write_handles[handle].attr.ino
            w == write_all(St, ino, offset, buf, handle)
            l == release_handle(w.s, handle)
            r == OpenAndRead(l.s, ino, offset, Len(buf))
        IN /\ w.res = "Ok" => Observable(w.s, ino) = Observable(St, ino)
           /\ (w.res = "Ok" /\ l.res = "Ok") =>
                 /\ r = Ret("Ok", r.s, buf)
                 /\ get_inode(l.s, ino).size = offset + Len(buf)

\* C8: every call of read and of write_all returns, whatever the handle's
\* cursor position, the offset and the file size.
C8_ReadWriteReturn ==
    Running =>
    /\ \A handle \in DOMAIN write_handles, offset \in 0..MaxLen, buf \in Bufs :
          write_all(St, write_handles[handle].attr.ino, offset, buf, handle).res # "Hang"
    /\ \A handle \in DOMAIN read_handles, offset \in 0..MaxLen, len \in 0..MaxLen :
          read(St, read_handles[handle].attr.ino, offset, len, handle).res # "Hang"

\* ------------------------------------------------- claims on create_nod

\* C11: for every parent and name, when create_nod(parent, name, attr, ..)
\* returns Ok with attr A, find_by_name(parent, name) returns Some(A).
C11_CreateThenFind ==
    Running =>
    \A parent \in Inos, name \in AnyNames, kind \in Kinds :
    \A ino \in generate_next_inode(St) :
        LET r == create_nod(St, parent, name, NewAttr(kind), TRUE, TRUE, ino)
        IN r.res = "Ok" =>
              find_by_name(r.s, parent, name) = Ret("Ok", r.s, r.out.attr)

\* The host filename a name maps to: "." and ".." mangled, separators removed.
HostName(name) == StripSeparators(Mangle(name))

\* C12: whenever the parent directory holds an entry under the host filename
\* that name maps to, create_nod(parent, name, ..) returns AlreadyExists and
\* changes nothing; and after a create_nod that returns Ok every name that
\* resolved in the parent before the call resolves to the same inode.
C12_CreateNeverReplaces ==
    Running =>
    \A parent \in Inos, name \in AnyNames, kind \in Kinds :
    \A ino \in generate_next_inode(St) :
        LET r == create_nod(St, parent, name, NewAttr(kind), TRUE, TRUE, ino)
        IN /\ (/\ is_dir(St, parent)
               /\ ContentIsDir(St, parent)
               /\ HostName(name) \in DOMAIN dirs[parent])
              => (r.res = "AlreadyExists" /\ r.s = St)
           /\ r.res = "Ok" =>
                 \A other \in AnyNames :
                     LET f == find_by_name(St, parent, other) IN
                     (f.res = "Ok" /\ f.out # NoAttr) =>
                         find_by_name(r.s, parent, other).out.ino = f.out.ino

\* ------------------------------------------- claims on read_dir and mount

\* The number of entries read_dir(ino) yields under the name.
Yields(s, ino, name) ==
    LET r == read_dir(s, ino) IN
    Cardinality({hname \in DOMAIN r.out : r.out[hname].name = name})

\* C13: for every directory D that exists, the root included, read_dir(D)
\* yields the name "." exactly once and the name ".." exactly once, and
\* never the names "$." or "$..".
C13_ReadDirDots ==
    \A D \in DOMAIN inodes :
        (is_dir(St, D) /\ ContentIsDir(St, D)) =>
            /\ read_dir(St, D).res = "Ok"
            /\ Yields(St, D, Dot) = 1
            /\ Yields(St, D, DotDot) = 1
            /\ Yields(St, D, MDot) = 0
            /\ Yields(St, D, MDotDot) = 0

\* C14: right after EncryptedFs::new on an empty data directory, inode 1
\* exists with kind Directory, mode 0o755 and nlink 2, read_dir(1) yields
\* exactly one entry, named ".", and both handle tables are empty.
C14_MountState ==
    St = new =>
        /\ HasInode(St, ROOT_INODE)
        /\ get_inode(St, ROOT_INODE).kind = Directory
        /\ get_inode(St, ROOT_INODE).perm = 493
        /\ get_inode(St, ROOT_INODE).nlink = 2
        /\ read_dir(St, ROOT_INODE).res = "Ok"
        /\ Cardinality(DOMAIN read_dir(St, ROOT_INODE).out) = 1
        /\ Yields(St, ROOT_INODE, Dot) = 1
        /\ read_handles = <<>>
        /\ write_handles = <<>>

\* The engine is in the state EncryptedFs::new leaves, the root listed.
C14_Mounted ==
    /\ St = new
    /\ Running
    /\ read_dir(St, ROOT_INODE).res = "Ok"

\* --------------------------------------------------------- claims on read

\* C15: every read(ino, offset, buf, h) that returns Ok(n) has
\* offset + n <= the size in the attr that handle h caches, for every offset
\* and every buffer length.
C15_ReadWithinSize ==
    Running =>
    \A handle \in DOMAIN read_handles, offset \in 0..MaxLen, len \in 0..MaxLen :
        LET r == read(St, read_handles[handle].attr.ino, offset, len, handle)
        IN r.res = "Ok" =>
              /\ Len(r.out) <= len
              /\ offset + Len(r.out) <= r.s.read_handles[handle].attr.size

\* A read handle that has read bytes, on which a read that asks for more
\* than the cached size leaves returns Ok with fewer bytes.
C15_ShortenedRead ==
    /\ Running
    /\ \E handle \in DOMAIN read_handles, offset \in 0..MaxLen, len \in 1..MaxLen :
          LET r == read(St, read_handles[handle].attr.ino, offset, len, handle)
          IN /\ read_handles[handle].position > 0
             /\ read_handles[handle].attr.atime = handle
             /\ r.res = "Ok"
             /\ offset + len > r.s.read_handles[handle].attr.size
             /\ Len(r.out) > 0
             /\ Len(r.out) < len

\* C16: a read whose offset lies beyond the size the handle caches returns
\* Ok with at most the requested number of bytes, never an error or a panic.
C16_ReadPastEndIsShort ==
    Running =>
    \A handle \in DOMAIN read_handles, offset \in 0..MaxLen, len \in 0..MaxLen :
        LET r == read(St, read_handles[handle].attr.ino, offset, len, handle)
        IN (/\ read_handles[handle].attr.kind = RegularFile
            /\ offset > read_handles[handle].attr.size)
           => (r.res = "Ok" /\ Len(r.out) <= len)

\* ----------------------------------------------- claims on release_handle

\* The attr cached for handle h: the size as write_all on h last set it, the
\* atime as read on h last set it.
CachedAttr(s, h) ==
    LET base == IF h \in DOMAIN s.write_handles THEN s.write_handles[h].attr
                ELSE s.read_handles[h].attr
    IN IF h \in DOMAIN s.read_handles
       THEN [base EXCEPT !.atime = s.read_handles[h].attr.atime]
       ELSE base

\* C17: after release_handle(h) returns Ok, h is in neither handle table, the
\* persisted attr of h's inode equals the attr cached for h, and if h wrote
\* to a staging file, contents/<ino> is the file that was the staging file.
C17_ReleasePersists ==
    Running =>
    \A h \in OpenHandles(St) :
        LET l == release_handle(St, h)
            ino == CachedAttr(St, h).ino
        IN l.res = "Ok" =>
              /\ h \notin OpenHandles(l.s)
              /\ HasInode(l.s, ino)
              /\ get_inode(l.s, ino) = CachedAttr(St, h)
              /\ (h \in DOMAIN write_handles /\ write_handles[h].path.tmp) =>
                    /\ ContentIsFile(l.s, ino)
                    /\ l.s.files[ino] = tmps[<<ino, h>>]
                    /\ l.s.disk[l.s.files[ino]] = disk[tmps[<<ino, h>>]]

\* C18: at any time every staging file contents/<ino>.<h>.tmp belongs to a
\* write handle h that is open on ino, no handle has two of them, and so
\* after release_handle(h) no staging file of h is left, whatever write_all
\* calls, successful or failed, were made on h.
C18_StagingFilesReleased ==
    /\ \A k \in DOMAIN tmps :
          /\ k[2] \in DOMAIN write_handles
          /\ write_handles[k[2]].attr.ino = k[1]
    /\ \A k1 \in DOMAIN tmps, k2 \in DOMAIN tmps : k1[2] = k2[2] => k1 = k2

\* ------------------------------------------- claims on handles and inodes

\* C19: the handles open and create_nod return are strictly increasing:
\* every handle in a table is at most current_file_handle, every handle a
\* call returns is greater than current_file_handle and becomes its new
\* value, and no call, failed ones included, lowers current_file_handle.
C19_HandlesIncrease ==
    Running =>
    /\ \A h \in OpenHandles(St) : h <= current_file_handle
    /\ \A ino \in Inos, rd \in BOOLEAN, wr \in BOOLEAN :
          LET o == open(St, ino, rd, wr) IN
          /\ o.s.current_file_handle >= current_file_handle
          /\ \A h \in OpenHandles(o.s) : h <= o.s.current_file_handle
          /\ o.res = "Ok" =>
                /\ o.out > current_file_handle
                /\ o.out = o.s.current_file_handle
    /\ \A parent \in Inos, name \in Names, kind \in Kinds :
       \A rd \in BOOLEAN, wr \in BOOLEAN, ino \in generate_next_inode(St) :
          LET c == create_nod(St, parent, name, NewAttr(kind), rd, wr, ino) IN
          /\ c.s.current_file_handle >= current_file_handle
          /\ \A h \in OpenHandles(c.s) : h <= c.s.current_file_handle
          /\ c.res = "Ok" =>
                /\ c.out.handle > current_file_handle
                /\ c.out.handle = c.s.current_file_handle
    /\ \A h \in 1..MaxHandle :
          release_handle(St, h).s.current_file_handle >= current_file_handle
    /\ \A ino \in Inos, size \in 0..MaxLen :
          truncate(St, ino, size).s.current_file_handle >= current_file_handle
    /\ \A parent \in Inos, name \in Names :
          /\ remove_file(St, parent, name).s.current_file_handle >= current_file_handle
          /\ remove_dir(St, parent, name).s.current_file_handle >= current_file_handle
    /\ \A h \in DOMAIN read_handles, offset \in 0..MaxLen, len \in 0..MaxLen :
          read(St, read_handles[h].attr.ino, offset, len, h).s.current_file_handle
             >= current_file_handle
    /\ \A h \in DOMAIN write_handles, offset \in 0..MaxLen, buf \in WriteBufs :
          write_all(St, write_handles[h].attr.ino, offset, buf, h).s.current_file_handle
             >= current_file_handle

\* A handle was returned after an earlier identifier had been used up (by a
\* handle since released, or by an open that failed), and a further open
\* would succeed.
C19_LaterHandle ==
    /\ Running
    /\ current_file_handle >= 2
    /\ current_file_handle \in OpenHandles(St)
    /\ 1 \notin OpenHandles(St)
    /\ \E ino \in Inos : open(St, ino, TRUE, TRUE).res = "Ok"

\* C20: an inode number create_nod assigns is greater than ROOT_INODE and
\* has no record yet; the new record carries that number, and the records
\* of all existing inodes are left as they were.
C20_FreshInodeNumbers ==
    Running =>
    \A parent \in Inos, name \in AnyNames, kind \in Kinds :
    \A ino \in generate_next_inode(St) :
       LET r == create_nod(St, parent, name, NewAttr(kind), TRUE, TRUE, ino) IN
       /\ ino > ROOT_INODE
       /\ ~node_exists(St, ino)
       /\ \A i \in DOMAIN inodes :
             /\ i \in DOMAIN r.s.inodes
             /\ r.s.inodes[i] = inodes[i] \/ (i = parent /\ r.res = "Ok")
             /\ r.s.inodes[i].ino = i
       /\ r.res = "Ok" =>
             /\ r.out.attr.ino = ino
             /\ node_exists(r.s, ino)
             /\ get_inode(r.s, ino) = r.out.attr

\* create_nod has assigned a number before, and would assign another one to
\* a new child of the root.
C20_SecondInode ==
    /\ Running
    /\ DOMAIN inodes # {ROOT_INODE}
    /\ \E name \in Names, ino \in generate_next_inode(St) :
          create_nod(St, ROOT_INODE, name, NewAttr(RegularFile), TRUE, TRUE, ino).res = "Ok"

\* ------------------------------------------------- claims on tampering

\* host file object fid with the byte in cell pos changed by someone other
\* than the engine.
Tamper(s, fid, pos) ==
    [s EXCEPT !.disk = Put(s.disk, fid,
                           [i \in 1..Len(s.disk[fid]) |->
                               IF i = pos THEN 1 - s.disk[fid][i] ELSE s.disk[fid][i]])]

\* The regular files no handle is open on.
ClosedFiles ==
    {ino \in DOMAIN files :
        \A h \in OpenHandles(St) :
            /\ h \in DOMAIN read_handles => read_handles[h].attr.ino # ino
            /\ h \in DOMAIN write_handles => write_handles[h].attr.ino # ino}

\* C21: when a ciphertext byte of contents/<ino> is changed after the file
\* was closed, the next read of the file (a new handle, the whole file)
\* fails with an error and delivers no bytes.
C21_TamperedReadFails ==
    Running =>
    \A ino \in ClosedFiles :
       HasInode(St, ino) =>
       \A pos \in 2..Len(disk[files[ino]]) :
          get_inode(St, ino).size >= pos - 1 =>
          LET r == OpenAndRead(Tamper(St, files[ino], pos), ino, 0,
                               get_inode(St, ino).size)
          IN /\ r.res # "Ok"
             /\ r.out = <<>>

\* --------------------------------------------- claims on moved directories

\* C29: after rename(parent, name, new_parent, new_name) succeeds on an
\* entry whose kind is Directory, find_by_name(moved, "..") returns
\* new_parent's attr and find_by_name(moved, ".") the moved directory's own
\* attr; rename with the same parent and the same name returns Ok and
\* changes nothing.
C29_RenameDirectoryLinks ==
    Running =>
    \A parent \in Inos, new_parent \in Inos :
    \A name \in AnyNames, new_name \in AnyNames :
       LET f == find_by_name(St, parent, name)
           r == rename(St, parent, name, new_parent, new_name)
       IN r.res = "Ok" =>
          IF parent = new_parent /\ name = new_name THEN r.s = St
          ELSE f.out.kind = Directory =>
               LET moved == f.out.ino
                   up == find_by_name(r.s, moved, DotDot)
                   self == find_by_name(r.s, moved, Dot)
               IN /\ up.res = "Ok"
                  /\ up.out # NoAttr
                  /\ up.out = get_inode(r.s, new_parent)
                  /\ self.res = "Ok"
                  /\ self.out # NoAttr
                  /\ self.out.ino = moved

\* ------------------------------------------------ claims on cached sizes

\* C28: after a successful write_all(ino, offset, buf, h) the size cached
\* in handle h is offset + len(buf), whatever it was before, the handle's
\* cursor is offset + len(buf), and the persisted inode records are the
\* ones from before the call.
C28_WriteSetsSize ==
    Running =>
    \A handle \in DOMAIN write_handles, offset \in 0..MaxLen, buf \in Bufs :
       LET w == write_all(St, write_handles[handle].attr.ino, offset, buf, handle)
       IN w.res = "Ok" =>
             /\ w.s.write_handles[handle].attr.size = offset + Len(buf)
             /\ w.s.write_handles[handle].position = offset + Len(buf)
             /\ w.s.inodes = inodes

\* A write handle whose cached size, set by an earlier write_all, is larger
\* than the end of a write that would succeed on it now.
C28_ShrinkingWrite ==
    /\ Running
    /\ \E handle \in DOMAIN write_handles, offset \in 0..MaxLen, buf \in Bufs :
          /\ write_handles[handle].position > 0
          /\ offset + Len(buf) < write_handles[handle].attr.size
          /\ write_all(St, write_handles[handle].attr.ino, offset, buf, handle).res = "Ok"

\* --------------------------------------------------- claims on the writers

\* C22: under one key no two chunk-seal operations on a file use the same
\* nonce: over the sealer FileCryptoWriter::new creates and every sealer
\* recreated after a backward seek or a flush, the nonces of all sealed
\* chunks are pairwise distinct.
C22_NoncesDistinct == ~file_writer.w.writer.repeated

\* The plaintext a reader gets from the canonical file of writer w.
Canonical(w) == Plain(w.file, w.nonce_seed).data

\* The plaintext that went through the sealer of w since it was created.
Staged(w) == Plain(w.writer.out.data, w.nonce_seed).data \o w.writer.buf

\* What a seek of w to its current position that merges the rest of the
\* canonical file leaves in it: the staged bytes, then the canonical bytes
\* from pos on.
Merged(w) ==
    Staged(w) \o SubSeq(Canonical(w), w.pos + 1, Len(Canonical(w)))

\* Nothing went through the sealer of w since the last rename.
Clean(w) == w.writer.out.data = <<>> /\ w.writer.buf = <<>>

\* C23: FileCryptoWriter::flush behaves as a seek to the current position:
\* after flush returns Ok pos is what it was before the call and the
\* canonical file holds every byte written so far followed by the old
\* canonical suffix; when nothing was written since the last rename and pos
\* equals the canonical length, flush changes neither the canonical file nor
\* the staging file and invokes no callback.
C23_FlushKeepsPosition ==
    (InUse /\ ~file_writer.finished) =>
        \A r \in {FileCryptoWriter_flush(Called, "none")} :
            r.res = "Ok" =>
                /\ r.s.pos = file_writer.w.pos
                /\ Canonical(r.s) = Merged(file_writer.w)
                /\ (Clean(file_writer.w)
                    /\ file_writer.w.pos = Len(Canonical(file_writer.w))) =>
                        /\ r.s.file = file_writer.w.file
                        /\ r.s.writer = file_writer.w.writer
                        /\ r.s.events = <<>>

\* The parts of C23 other than the position.
C23_FlushMerges ==
    (InUse /\ ~file_writer.finished) =>
        \A r \in {FileCryptoWriter_flush(Called, "none")} :
            r.res = "Ok" =>
                /\ Canonical(r.s) = Merged(file_writer.w)
                /\ (Clean(file_writer.w)
                    /\ file_writer.w.pos = Len(Canonical(file_writer.w))) =>
                        /\ r.s.file = file_writer.w.file
                        /\ r.s.writer = file_writer.w.writer
                        /\ r.s.events = <<>>

\* A RingCryptoWriter whose finish has returned Ok.
RingFinished == ~ring_writer.r.out.some

\* The result and the writer left by each call a caller can make on the file
\* writer.
LaterFileCalls ==
    {[res |-> r.res, s |-> r.s] :
        r \in {FileCryptoWriter_write(Called, buf) : buf \in WBufs \ {<<>>}}
                \cup {seek_from_start(Called, target, "none") : target \in 0..MaxPos}
                \cup {FileCryptoWriter_flush(Called, "none")}}
        \cup {[res |-> r.res, s |-> r.s] :
                r \in {FileCryptoWriter_finish(Called, "none")}}

\* The result and the writer left by each call a caller can make on the ring
\* writer.
LaterRingCalls ==
    {[res |-> r.res, s |-> r.s] :
        r \in {RingCryptoWriter_write(ring_writer.r, buf) : buf \in WBufs \ {<<>>}}
                \cup {RingCryptoWriter_flush(ring_writer.r)}}
        \cup {[res |-> r.res, s |-> r.s] :
                r \in {RingCryptoWriter_finish(ring_writer.r)}}

\* C24: once finish has returned Ok on a FileCryptoWriter the writer is
\* closed: every later write, seek, flush or finish on it returns an error
\* and changes neither the canonical file nor a staging file.
C24_ClosedAfterFinish ==
    (InUse /\ file_writer.finished) =>
        \A r \in LaterFileCalls :
            /\ r.res # "Ok"
            /\ r.s.file = file_writer.w.file
            /\ r.s.writer.out = file_writer.w.writer.out
            /\ r.s.tmp_exists = file_writer.w.tmp_exists

\* The same for the RingCryptoWriter under it: after its finish returned Ok
\* every later write, flush or finish returns an error and leaves the sink
\* alone.
C24_RingClosedAfterFinish ==
    RingFinished =>
        \A r \in LaterRingCalls :
            /\ r.res # "Ok"
            /\ r.s.out = ring_writer.r.out

\* The events of a call in which every rename is followed at once by
\* on_file_content_changed(0), before any byte is written, and no callback
\* happens otherwise.
RECURSIVE NotifiedAfterEachRename(_)
NotifiedAfterEachRename(events) ==
    IF events = <<>> THEN TRUE
    ELSE IF Head(events) = Renamed
    THEN /\ Len(events) >= 2
         /\ events[2] = Changed(0)
         /\ NotifiedAfterEachRename(Tail(Tail(events)))
    ELSE /\ Head(events) = Wrote
         /\ NotifiedAfterEachRename(Tail(events))

\* The writer each call leaves, whatever it returns, for every step at
\* which the host can fail.
AnyFileCalls ==
    {FileCryptoWriter_write(Called, buf).s : buf \in WBufs}
        \cup {seek_from_start(Called, target, fault).s :
                target \in 0..MaxPos, fault \in Faults}
        \cup {FileCryptoWriter_flush(Called, fault).s : fault \in Faults}
        \cup {FileCryptoWriter_finish(Called, fault).s : fault \in Faults}

\* C25: on_file_content_changed is invoked with argument 0 exactly once
\* after each rename of the staging file over the canonical file and before
\* any further byte is written through the recreated sealer, and it is never
\* invoked when no rename happened (forward seek, seek to the current
\* position, plain write).
C25_CallbackAfterRename ==
    InUse => \A s \in AnyFileCalls : NotifiedAfterEachRename(s.events)

\* C25 for the calls in which the host returns no error.
C25_CallbackAfterRenameNoFault ==
    InUse =>
        \A s \in {FileCryptoWriter_write(Called, buf).s : buf \in WBufs}
                    \cup {seek_from_start(Called, target, "none").s :
                            target \in 0..MaxPos}
                    \cup {FileCryptoWriter_finish(Called, "none").s} :
            NotifiedAfterEachRename(s.events)

\* The steps of a backward seek before the rename at which the host can
\* fail.
FaultsBeforeRename == {"flush", "copy", "finish"}

\* C26: if a backward seek fails at a step before the rename (flushing,
\* copying the canonical suffix into staging, finishing the sealer), the
\* canonical file's content is what it was before the seek, and the staging
\* file is removed when the writer is dropped.
C26_FailureBeforeRename ==
    InUse =>
        \A target \in 0..MaxPos, fault \in FaultsBeforeRename :
            \A r \in {seek_from_start(Called, target, fault)} :
                (target < file_writer.w.pos /\ r.res # "Ok") =>
                    /\ r.s.file = file_writer.w.file
                    /\ ~FileCryptoWriter_drop(r.s).tmp_exists

\* The first part of C26: the canonical file is as before the seek.
C26_CanonicalIntact ==
    InUse =>
        \A target \in 0..MaxPos, fault \in FaultsBeforeRename :
            \A r \in {seek_from_start(Called, target, fault)} :
                (target < file_writer.w.pos /\ r.res # "Ok") =>
                    /\ r.s.file = file_writer.w.file
                    /\ Renamed \notin {r.s.events[i] : i \in DOMAIN r.s.events}

\* C27: for any sequence of seek_from_start(target) and write(buf) calls on
\* a FileCryptoWriter followed by finish, the plaintext of the canonical
\* file is that of a random-access file that started with the same content
\* and received the same positioned writes, where a forward seek past the
\* end fills the gap with zeros and the bytes after the last written
\* position are kept; after each successful seek_from_start(target) the
\* writer's pos is target.
C27_MatchesReferenceFile ==
    (InUse /\ file_writer.plain) =>
        /\ file_writer.w.pos = file_writer.ref_pos
        /\ \A r \in {FileCryptoWriter_finish(Called, "none")} :
              /\ r.res = "Ok"
              /\ Plain(r.out, NonceSeed) = [ok |-> TRUE, data |-> file_writer.ref]
        /\ \A target \in 0..MaxPos :
              \A r \in {seek_from_start(Called, target, "none")} :
                  r.res = "Ok" => (r.s.pos = target /\ r.out = target)

\* A writer that has renamed once (the canonical file holds 0 1 0, which no
\* file starts with), went forward to position 2 and wrote a byte there:
\* the canonical file and the reference file differ until finish.
C27_RewrittenFile ==
    /\ InUse
    /\ file_writer.plain
    /\ Canonical(file_writer.w) = <<0, 1, 0>>
    /\ file_writer.ref = <<0, 1, 1>>
    /\ file_writer.w.pos = 3

\* The plaintext lengths of the chunks that reached the sink.
ChunkLens(r) == [i \in DOMAIN r.out.data |-> Len(r.out.data[i].ct)]

\* C30: for any sequence of write and flush calls on a RingCryptoWriter
\* followed by one finish, every sealed chunk except the last holds exactly
\* BUF_SIZE bytes of plaintext, only finish emits a partial chunk, flush on
\* a partly filled buffer emits nothing, and the concatenation of the
\* chunks' plaintext is the concatenation of the bytes the write calls
\* reported as taken.
C30_ChunksOfAcceptedBytes ==
    /\ \A i \in DOMAIN ChunkLens(ring_writer.r) :
          /\ ChunkLens(ring_writer.r)[i] = BUF_SIZE
                \/ (i = Len(ring_writer.r.out.data) /\ RingFinished)
          /\ ChunkLens(ring_writer.r)[i] > 0
    /\ Plain(ring_writer.r.out.data, NonceSeed).ok
    /\ Plain(ring_writer.r.out.data, NonceSeed).data \o ring_writer.r.buf
          = ring_writer.accepted
    /\ RingFinished => ring_writer.r.buf = <<>>
    /\ ~RingFinished =>
          /\ \A r \in {RingCryptoWriter_flush(ring_writer.r)} :
                /\ r.res = "Ok"
                /\ Len(ring_writer.r.buf) < BUF_SIZE => r.s = ring_writer.r
          /\ \A r \in {RingCryptoWriter_finish(ring_writer.r)} :
                /\ r.res = "Ok"
                /\ Plain(r.out, NonceSeed) =
                      [ok |-> TRUE, data |-> ring_writer.accepted]

\* A finished writer that sealed two full chunks and then, at finish, a
\* partial one.
C30_PartialLastChunk ==
    /\ RingFinished
    /\ ChunkLens(ring_writer.r) = <<BUF_SIZE, BUF_SIZE, 1>>

\* ------------------------------------------- claims on failed and late calls

\* The inode records, content objects and directory entries of s.
Persisted(s) == [inodes |-> s.inodes, dirs |-> s.dirs, files |-> s.files]

\* The create_nod calls a caller can make, with the result of each and the
\* state it leaves.
CreateNodCalls ==
    {[res |-> r.res, s |-> r.s] :
        r \in {create_nod(St, parent, name, NewAttr(kind), TRUE, TRUE, ino) :
                parent \in Inos, name \in AnyNames, kind \in Kinds,
                ino \in generate_next_inode(St)}}

\* C31: whenever create_nod returns an error (InodeNotFound, AlreadyExists,
\* InvalidInodeType for a kind that is neither RegularFile nor Directory, or
\* an I/O error because the parent is not a directory), the inode records,
\* content objects and directory entries are the same as before the call.
C31_FailedCreateChangesNothing ==
    Running =>
        \A r \in CreateNodCalls :
            r.res \in {"InodeNotFound", "AlreadyExists", "InvalidInodeType", "Io"} =>
                Persisted(r.s) = Persisted(St)

\* C31 for the errors create_nod returns before it writes the inode.
C31_EarlyErrorsChangeNothing ==
    Running =>
        \A r \in CreateNodCalls :
            r.res \in {"InodeNotFound", "AlreadyExists"} =>
                Persisted(r.s) = Persisted(St)

\* The inodes a successful remove_file(parent, name) removes, with the state
\* each removal leaves.
Removals ==
    {[s |-> r.s, gone |-> (DOMAIN inodes) \ (DOMAIN r.s.inodes)] :
        r \in {x \in {remove_file(St, parent, name) :
                        parent \in Inos, name \in Names} : x.res = "Ok"}}

\* C32: once remove_file(parent, name) has succeeded for inode i, neither
\* inodes/<i> nor contents/<i> exists in a later state until create_nod
\* allocates i again, whatever read or write handles on i were open at the
\* removal and are released afterwards.
C32_RemovedStaysRemoved ==
    Running =>
        \A rm \in Removals :
            /\ rm.gone # {}
            /\ \A i \in rm.gone : ~node_exists(rm.s, i) /\ ~ContentIsFile(rm.s, i)
            /\ \A h \in OpenHandles(rm.s) :
                  \A l \in {release_handle(rm.s, h)} :
                      \A i \in rm.gone :
                          ~node_exists(l.s, i) /\ ~ContentIsFile(l.s, i)

\* C32 up to the release of the handles: right after remove_file returns Ok
\* the inode record and the content file are gone.
C32_RemovedAtOnce ==
    Running =>
        \A rm \in Removals :
            /\ rm.gone # {}
            /\ \A i \in rm.gone : ~node_exists(rm.s, i) /\ ~ContentIsFile(rm.s, i)

\* The handles open on inode ino.
HandlesOn(s, ino) ==
    {h \in DOMAIN s.read_handles : s.read_handles[h].attr.ino = ino}
        \cup {h \in DOMAIN s.write_handles : s.write_handles[h].attr.ino = ino}

\* The truncate calls that return Ok, with the inode, the size and the state
\* each leaves.
Truncations ==
    {t \in {[ino |-> ino, size |-> size, r |-> truncate(St, ino, size)] :
                ino \in Inos, size \in 0..MaxLen} : t.r.res = "Ok"}

\* C33: after truncate(ino, size) returns Ok the persisted attr.size of ino
\* is size and keeps that value until the next truncate or write_all on
\* ino, also when handles on ino that were opened before the truncate are
\* released after it.
C33_TruncatedSizeStays ==
    Running =>
        \A t \in Truncations :
            /\ get_inode(t.r.s, t.ino).size = t.size
            /\ \A h \in HandlesOn(t.r.s, t.ino) :
                  \A l \in {release_handle(t.r.s, h)} :
                      l.res = "Ok" =>
                          (HasInode(l.s, t.ino)
                           /\ get_inode(l.s, t.ino).size = t.size)

\* C33 up to the release of the handles: when truncate returns Ok the
\* persisted size is the size asked for.
C33_TruncateSetsSize ==
    Running =>
        \A t \in Truncations : get_inode(t.r.s, t.ino).size = t.size

====
